---------------------------- MODULE Spec2Model ----------------------------
(***************************************************************************)
(* Model of the ray-tracing engine of the optics table                     *)
(* (src/src/engine/raytracer.ts): calculateRays, its work queue, and       *)
(* tracePolyline, the per-branch interaction state machine.                *)
(*                                                                         *)
(* Numbers.  The engine computes with IEEE doubles.  The model computes    *)
(* with fixed-point integers, every product and quotient rounded to the    *)
(* nearest representable value as a double operation is:                   *)
(*   lengths and coordinates   in units of 1/LEN  (0.001 = EPSILON)        *)
(*   dimensionless quantities  in units of 1/ONE  (directions, normals,    *)
(*                             Jones amplitudes, ratios, trigonometry)     *)
(*   intensities (power)       in units of 1/PW                            *)
(*   angles                    in units of 1/DEG of a degree               *)
(***************************************************************************)
EXTENDS Integers, Sequences, FiniteSets, TLC

LEN == 1000
ONE == 10000
PW  == 100000000
DEG == 10

\* ------------------------------------------------------------------------
\* Program constants (raytracer.ts lines 6-12)
\* ------------------------------------------------------------------------
MAX_RAY_LENGTH == 2000 * LEN
MAX_BOUNCES == 20
MAX_TOTAL_RAYS == 2000
MIN_INTENSITY == PW \div 10000
EPSILON == LEN \div 1000
REFRACTIVE_INDEX_AIR == ONE
REFRACTIVE_INDEX_GLASS == (15 * ONE) \div 10

\* ------------------------------------------------------------------------
\* Fixed-point arithmetic
\* ------------------------------------------------------------------------
\* const x = e; ...: e is computed once and named x in what follows
Let(e, F(_)) == F(e)

Abs(a) == IF a < 0 THEN -a ELSE a

Sgn(a) == IF a < 0 THEN -1 ELSE IF a > 0 THEN 1 ELSE 0

Max2(a, b) == IF a >= b THEN a ELSE b

Min2(a, b) == IF a <= b THEN a ELSE b

\* a * b / s rounded to nearest (ties away from zero); the product is formed
\* in two parts, splitting the larger factor, so that no intermediate exceeds
\* the integer range.
MulDiv(a, b, s) ==
    LET big == Max2(Abs(a), Abs(b))
        small == Min2(Abs(a), Abs(b))
        q == big \div s
        r == big % s
    IN  Sgn(a) * Sgn(b) * (q * small + (r * small + s \div 2) \div s)

RECURSIVE Reduce2(_, _)
\* the least h in {1, 2, 4, ...} with n \div h <= cap
Reduce2(n, cap) == IF n <= cap THEN 1 ELSE 2 * Reduce2(n \div 2, cap)

\* a * s / b rounded to nearest, b # 0; a large divisor is range-reduced
\* together with the dividend so that no intermediate exceeds the integer range.
DivScale(a, b, s) ==
    LET h == Reduce2(Abs(b), 2000000000 \div s)
        n == Abs(a) \div h
        d == Abs(b) \div h
        q == n \div d
        r == n % d
    IN  Sgn(a) * Sgn(b) * (q * s + (r * s + d \div 2) \div d)

RECURSIVE SqrtSearch(_, _, _)
SqrtSearch(n, lo, hi) ==
    IF lo >= hi THEN lo
    ELSE LET mid == (lo + hi + 1) \div 2
         IN  IF mid * mid <= n THEN SqrtSearch(n, mid, hi)
                               ELSE SqrtSearch(n, lo, mid - 1)

\* floor(sqrt(n)) for 0 <= n < 2^31
ISqrt(n) == IF n <= 0 THEN 0 ELSE SqrtSearch(n, 0, Min2(n, 46340))

RECURSIVE Reduce4(_, _)
\* the least k in {1, 4, 16, ...} with n \div k <= cap
Reduce4(n, cap) == IF n <= cap THEN 1 ELSE 4 * Reduce4(n \div 4, cap)

\* Math.sqrt of a fixed-point value v >= 0 of scale s: sqrt(v / s) * s.
\* The radicand v * s is range-reduced by a power of 4 when it would overflow.
SqrtFix(v, s) ==
    IF v <= 0 THEN 0
    ELSE LET k == Reduce4(v, 2000000000 \div s)
         IN  ISqrt((v \div k) * s) * ISqrt(k)

\* ------------------------------------------------------------------------
\* Trigonometry: Math.cos / Math.sin of an angle given in degrees (times
\* DEG), from a table of cos at whole degrees, interpolated between them.
\* ------------------------------------------------------------------------
CosTable ==
  << 10000, 9998, 9994, 9986, 9976, 9962, 9945, 9925, 9903, 9877, 9848, 9816, 9781,
     9744, 9703, 9659, 9613, 9563, 9511, 9455, 9397, 9336, 9272, 9205, 9135, 9063,
     8988, 8910, 8829, 8746, 8660, 8572, 8480, 8387, 8290, 8192, 8090, 7986, 7880,
     7771, 7660, 7547, 7431, 7314, 7193, 7071, 6947, 6820, 6691, 6561, 6428, 6293,
     6157, 6018, 5878, 5736, 5592, 5446, 5299, 5150, 5000, 4848, 4695, 4540, 4384,
     4226, 4067, 3907, 3746, 3584, 3420, 3256, 3090, 2924, 2756, 2588, 2419, 2250,
     2079, 1908, 1736, 1564, 1392, 1219, 1045, 872, 698, 523, 349, 175, 0 >>

\* the table t read at i whole degrees and f tenths, 0 <= i <= 90
Interpolate(t, i, f) ==
    IF f = 0 THEN t[i + 1]
    ELSE t[i + 1] + MulDiv(t[i + 2] - t[i + 1], f, DEG)

\* cos of an angle a in [0, 90 * DEG]
CosQ1(a) == Interpolate(CosTable, a \div DEG, a % DEG)

\* the angle of [0, 90 * DEG] with the same |cos| as d in [0, 360 * DEG)
Fold(d) ==
    IF d <= 90 * DEG THEN d
    ELSE IF d <= 180 * DEG THEN 180 * DEG - d
    ELSE IF d <= 270 * DEG THEN d - 180 * DEG
    ELSE 360 * DEG - d

Cos(a) ==
    (IF 90 * DEG < a % (360 * DEG) /\ a % (360 * DEG) <= 270 * DEG THEN -1 ELSE 1)
    * CosQ1(Fold(a % (360 * DEG)))

Sin(a) == Cos(a - 90 * DEG)

\* ------------------------------------------------------------------------
\* Vector math utilities (raytracer.ts lines 15-36)
\* ------------------------------------------------------------------------
Vec(x, y) == [x |-> x, y |-> y]

\* v1 + v2; a coordinate that is not a number stays so, an infinite one stays
\* infinite (the values 2147483647 and -2147483647 stand for Infinity and NaN)
add(v1, v2) ==
    LET Plus(a, b) == IF a = -2147483647 \/ b = -2147483647 THEN -2147483647
                      ELSE IF a = 2147483647 \/ b = 2147483647 THEN 2147483647
                      ELSE a + b
    IN  Vec(Plus(v1.x, v2.x), Plus(v1.y, v2.y))

\* v1 - v2; Infinity - Infinity is not a number
sub(v1, v2) ==
    LET Minus(a, b) == IF a = -2147483647 \/ b = -2147483647 THEN -2147483647
                       ELSE IF a = 2147483647
                            THEN (IF b = 2147483647 THEN -2147483647 ELSE 2147483647)
                       ELSE a - b
    IN  Vec(Minus(v1.x, v2.x), Minus(v1.y, v2.y))

\* v * s, s of scale sc
mul(v, s, sc) == Vec(MulDiv(v.x, s, sc), MulDiv(v.y, s, sc))

\* v1 . v2, the result keeping v1's scale, v2 of scale sc
dot(v1, v2, sc) == MulDiv(v1.x, v2.x, sc) + MulDiv(v1.y, v2.y, sc)

\* |v| in v's own scale: sqrt(x^2 + y^2), range-reduced against overflow
mag(v) ==
    LET h == Reduce2(Max2(Abs(v.x), Abs(v.y)), 30000)
        ax == Abs(v.x) \div h
        ay == Abs(v.y) \div h
    IN  ISqrt(ax * ax + ay * ay) * h

\* v / |v| as a dimensionless vector (scale ONE)
normalize(v) ==
    Let(mag(v), LAMBDA m :
        IF m = 0 THEN Vec(0, 0)
        ELSE Vec(DivScale(v.x, m, ONE), DivScale(v.y, m, ONE)))

rotatePoint(point, center, angleDeg) ==
    Let(Cos(angleDeg), LAMBDA cos :
    Let(Sin(angleDeg), LAMBDA sin :
        LET dx == point.x - center.x
            dy == point.y - center.y
        IN  Vec(center.x + MulDiv(dx, cos, ONE) - MulDiv(dy, sin, ONE),
                center.y + MulDiv(dx, sin, ONE) + MulDiv(dy, cos, ONE))))

\* ------------------------------------------------------------------------
\* Complex and Jones math (raytracer.ts lines 39-117); amplitudes of scale ONE
\* ------------------------------------------------------------------------
Cx(re, im) == [re |-> re, im |-> im]

cAdd(c1, c2) == Cx(c1.re + c2.re, c1.im + c2.im)

cMul(c1, c2) ==
    Cx(MulDiv(c1.re, c2.re, ONE) - MulDiv(c1.im, c2.im, ONE),
       MulDiv(c1.re, c2.im, ONE) + MulDiv(c1.im, c2.re, ONE))

cMulScalar(c, s) == Cx(MulDiv(c.re, s, ONE), MulDiv(c.im, s, ONE))

cAbs(c) == SqrtFix(MulDiv(c.re, c.re, ONE) + MulDiv(c.im, c.im, ONE), ONE)

\* e^(i theta), theta given in degrees (times DEG)
cExp(theta) == Cx(Cos(theta), Sin(theta))

Jones(ex, ey) == [ex |-> ex, ey |-> ey]

getLinearPolarization(angleDeg) ==
    Jones(Cx(Cos(angleDeg), 0), Cx(Sin(angleDeg), 0))

rotateJonesVector(jv, angleDeg) ==
    Let(Cx(Cos(angleDeg), 0), LAMBDA cosNode :
    Let(Cx(Sin(angleDeg), 0), LAMBDA sinNode :
        LET minus_sin == Cx(-sinNode.re, 0)
            newEx == cAdd(cMul(jv.ex, cosNode), cMul(jv.ey, sinNode))
            newEy == cAdd(cMul(jv.ex, minus_sin), cMul(jv.ey, cosNode))
        IN  Jones(newEx, newEy)))

applyWaveplate(jv, fastAxisDeg, retardanceDeg) ==
    Let(rotateJonesVector(jv, -fastAxisDeg), LAMBDA rotatedInput :
        LET phaseShift == cExp(-retardanceDeg)
            processedRotated == Jones(rotatedInput.ex, cMul(rotatedInput.ey, phaseShift))
        IN  rotateJonesVector(processedRotated, fastAxisDeg))

applyPolarizer(jv, axisDeg) ==
    Let(rotateJonesVector(jv, -axisDeg), LAMBDA rotatedInput :
        LET processedRotated == Jones(rotatedInput.ex, Cx(0, 0))
        IN  rotateJonesVector(processedRotated, axisDeg))

\* a * a, of scale ONE
Square(a) == MulDiv(a, a, ONE)

\* |ex|^2 + |ey|^2, of scale ONE
getIntensity(jv) == Square(cAbs(jv.ex)) + Square(cAbs(jv.ey))

getStokes(jv) ==
    Let(Square(cAbs(jv.ex)), LAMBDA ax2 :
    Let(Square(cAbs(jv.ey)), LAMBDA ay2 :
    Let(cMul(jv.ex, Cx(jv.ey.re, -jv.ey.im)), LAMBDA prod :
        [s0 |-> ax2 + ay2,
         s1 |-> ax2 - ay2,
         s2 |-> 2 * prod.re,
         s3 |-> 2 * prod.im])))

\* a Jones vector left at the magnitude the interaction gave it
Unscaled(jv) == jv

\* m < 1e-9 is m = 0 at the model's resolution
normalizeJones(jv) ==
    Let(SqrtFix(getIntensity(jv), ONE), LAMBDA m :
        IF m = 0 THEN Jones(Cx(0, 0), Cx(0, 0))
        ELSE Let(DivScale(ONE, m, ONE), LAMBDA s :
                 Jones(cMulScalar(jv.ex, s), cMulScalar(jv.ey, s))))

\* ------------------------------------------------------------------------
\* Math library functions used by the engine
\* ------------------------------------------------------------------------
PI == 31416

RECURSIVE AcosSearch(_, _, _)
\* the angle in [lo, hi] (degrees times DEG) whose cosine is nearest to c from
\* below; Cos decreases on [0, 180 degrees]
AcosSearch(c, lo, hi) ==
    IF lo >= hi THEN lo
    ELSE LET mid == (lo + hi) \div 2
         IN  IF Cos(mid) <= c THEN AcosSearch(c, lo, mid)
                              ELSE AcosSearch(c, mid + 1, hi)

\* (Math.acos(c) * 180) / Math.PI for c in [-ONE, ONE]
AcosDeg(c) == AcosSearch(c, 0, 180 * DEG)

RECURSIVE ExpSeries(_, _, _, _)
ExpSeries(x, term, k, n) ==
    IF k > n \/ term = 0 THEN 0
    ELSE term + ExpSeries(x, MulDiv(term, x, ONE) \div k, k + 1, n)

RECURSIVE Exp(_)
\* Math.exp(x) for x <= 0 of scale ONE: the power series on [-1, 0], and
\* exp(x) = exp(x / 2)^2 below
Exp(x) ==
    IF x >= -ONE THEN Max2(0, ExpSeries(x, ONE, 1, 24))
    ELSE Square(Exp(x \div 2))

\* ------------------------------------------------------------------------
\* Gaussian beam helpers (raytracer.ts lines 124-169).  w0, z, zR and the
\* wavelength are lengths; 1/q is kept in units of 1e-6 per length unit.
\* NaN stands for the non-finite results of a division by zero.
\* ------------------------------------------------------------------------
NaN == -2147483647

IsNaN(v) == v = NaN

Gauss(w0, z, zR, wavelength) == [w0 |-> w0, z |-> z, zR |-> zR, wavelength |-> wavelength]

propagateGaussian(params, distance) ==
    IF IsNaN(params.z) THEN params
    ELSE [params EXCEPT !.z = params.z + distance]

lensTransformGaussian(params, f) ==
    LET z == params.z
        zR == params.zR
    IN
    \* den = z*z + zR*zR, in whole length units squared
    Let((MulDiv(z, z, LEN) + MulDiv(zR, zR, LEN)) \div LEN, LAMBDA den :
        IF IsNaN(z) \/ IsNaN(zR) \/ den = 0 \/ f = 0
        THEN Gauss(NaN, NaN, NaN, params.wavelength)
        ELSE
    Let(DivScale(z, den, LEN) - DivScale(LEN * LEN, f, LEN), LAMBDA out_invQ_re :
    Let(DivScale(-zR, den, LEN), LAMBDA out_invQ_im :
    \* out_den in units of 1e-9
    Let(MulDiv(out_invQ_re, out_invQ_re, LEN) + MulDiv(out_invQ_im, out_invQ_im, LEN),
        LAMBDA out_den :
        IF out_den = 0 THEN Gauss(NaN, NaN, NaN, params.wavelength)
        ELSE
    Let(DivScale(-out_invQ_im, out_den, LEN) * LEN, LAMBDA newZR :
        LET newZ == DivScale(out_invQ_re, out_den, LEN) * LEN
            newW0 == SqrtFix(DivScale(MulDiv(newZR, params.wavelength, LEN), PI, ONE), LEN)
        IN  Gauss(newW0, newZ, newZR, params.wavelength))))))

\* ------------------------------------------------------------------------
\* Optical components (types.ts lines 18-62).  A component is a record with
\* id, type, position, rotation and, optionally, params; params is a record
\* holding any subset of the optional parameters.
\* ------------------------------------------------------------------------
HasParam(comp, name) == "params" \in DOMAIN comp /\ name \in DOMAIN comp.params

\* a read written comp.params.name
PlainRead(name) == FALSE

\* whether the engine reads the parameter as comp.params?.name: it does so at
\* every read
OptionalChain(name) == TRUE

\* reading comp.params.name throws a TypeError when params is absent, unless
\* the read is an optional chain, which then yields undefined
ParamReadThrows(comp, name) ==
    ~("params" \in DOMAIN comp) /\ ~OptionalChain(name)

\* whether some read of the given parameters of comp throws
ReadsThrow(comp, names) == \E n \in names : ParamReadThrows(comp, n)

\* comp.params?.name ?? default
ParamOr(comp, name, default) ==
    IF HasParam(comp, name) THEN comp.params[name] ELSE default

\* comp.params?.name || default  (0 is falsy)
ParamOrTruthy(comp, name, default) ==
    IF HasParam(comp, name) /\ comp.params[name] # 0 THEN comp.params[name] ELSE default

\* comp.params?.name || default for a string parameter  ("" is falsy)
StringOr(comp, name, default) ==
    IF HasParam(comp, name) /\ comp.params[name] # "" THEN comp.params[name] ELSE default

\* ------------------------------------------------------------------------
\* Shape definitions (raytracer.ts lines 174-317)
\* ------------------------------------------------------------------------
\* the segment from (xLocal, -halfWidth) to (xLocal, halfWidth), rotated about
\* the component's position
LocalSegment(comp, xLocal, halfWidth) ==
    LET pos == comp.position
    IN  [p1 |-> rotatePoint(Vec(pos.x + xLocal, pos.y - halfWidth), pos, comp.rotation),
         p2 |-> rotatePoint(Vec(pos.x + xLocal, pos.y + halfWidth), pos, comp.rotation)]

Seg(ps, normal) == [p1 |-> ps.p1, p2 |-> ps.p2, normal |-> normal]

getMirrorSegment(mirror) ==
    Seg(LocalSegment(mirror, 0, (100 * LEN) \div 2),
        Vec(Cos(mirror.rotation), Sin(mirror.rotation)))

getDetectorSegment(det) ==
    Seg(LocalSegment(det, 0, (80 * LEN) \div 2),
        Vec(Cos(det.rotation), Sin(det.rotation)))

getIrisSegment(iris) ==
    Seg(LocalSegment(iris, 0, (64 * LEN) \div 2),
        Vec(Cos(iris.rotation), Sin(iris.rotation)))

getFiberSegment(fiber) ==
    Seg(LocalSegment(fiber, -16 * LEN, (60 * LEN) \div 2),
        Vec(Cos(fiber.rotation + 180 * DEG), Sin(fiber.rotation + 180 * DEG)))

getAOMSegment(aom) ==
    Seg(LocalSegment(aom, 0, (80 * LEN) \div 2),
        Vec(Cos(aom.rotation), Sin(aom.rotation)))

getCavitySegments(cavity) ==
    LET halfHeight == (80 * LEN) \div 2
        length == ParamOr(cavity, "cavityLength", 100 * LEN)
        halfLength == length \div 2
        normalRight == Vec(Cos(cavity.rotation), Sin(cavity.rotation))
        normalLeft == Vec(-Cos(cavity.rotation), -Sin(cavity.rotation))
    IN  [left |-> Seg(LocalSegment(cavity, -halfLength, halfHeight), normalRight),
         right |-> Seg(LocalSegment(cavity, halfLength, halfHeight), normalLeft)]

getWaveplateSegment(wp) ==
    Seg(LocalSegment(wp, 0, (60 * LEN) \div 2),
        Vec(Cos(wp.rotation), Sin(wp.rotation)))

getBeamSplitterSegment(bs) ==
    LET half == (60 * LEN) \div 2
        pos == bs.position
    IN
    Let(rotatePoint(Vec(pos.x - half, pos.y + half), pos, bs.rotation), LAMBDA p1 :
    Let(rotatePoint(Vec(pos.x + half, pos.y - half), pos, bs.rotation), LAMBDA p2 :
        LET dx == p2.x - p1.x
            dy == p2.y - p1.y
        IN  [p1 |-> p1, p2 |-> p2, normal |-> normalize(Vec(-dy, dx))]))

\* ------------------------------------------------------------------------
\* Lens boundaries (raytracer.ts lines 325-381)
\* ------------------------------------------------------------------------
IsPlano(shape) == shape \in {"plano-convex", "plano-concave"}

IsConcave(shape) == shape \in {"concave", "plano-concave"}

Circle(center, radius, normalFlip) ==
    [type |-> "circle", center |-> center, radius |-> radius, normalFlip |-> normalFlip]

Line(p1, p2) == [type |-> "line", p1 |-> p1, p2 |-> p2]

getLensBoundaries(lens) ==
    LET f == ParamOrTruthy(lens, "focalLength", 100 * LEN)
        n == REFRACTIVE_INDEX_GLASS
        T == 15 * LEN
        pos == lens.position
        transform(localC) == rotatePoint(add(pos, localC), pos, lens.rotation)
    IN
    Let(StringOr(lens, "lensShape", "convex"), LAMBDA shape :
    Let(MulDiv(f, IF IsPlano(shape) THEN n - ONE ELSE 2 * (n - ONE), ONE), LAMBDA R :
        IF shape = "convex" THEN
            << Circle(transform(Vec(R - T \div 2, 0)), R, 1),
               Circle(transform(Vec(-(R - T \div 2), 0)), R, 1) >>
        ELSE IF shape = "concave" THEN
            << Circle(transform(Vec(-R - T \div 2, 0)), R, -1),
               Circle(transform(Vec(R + T \div 2, 0)), R, -1) >>
        ELSE IF shape = "plano-convex" THEN
            << Line(transform(Vec(-(T \div 2), -80 * LEN)), transform(Vec(-(T \div 2), 80 * LEN))),
               Circle(transform(Vec(-R + T \div 2, 0)), R, 1) >>
        ELSE IF shape = "plano-concave" THEN
            << Line(transform(Vec(-(T \div 2), -80 * LEN)), transform(Vec(-(T \div 2), 80 * LEN))),
               Circle(transform(Vec(R + T \div 2, 0)), R, -1) >>
        ELSE << >>))

\* ------------------------------------------------------------------------
\* Intersection logic (raytracer.ts lines 385-430).  rayDir is dimensionless
\* (scale ONE); t is the distance along the ray, a length.
\* ------------------------------------------------------------------------
NoHit == [hit |-> FALSE]

Hit(t, point, normal) == [hit |-> TRUE, t |-> t, point |-> point, normal |-> normal]

\* u = unum / den lies in [0, 1]
UnitInterval(unum, den) ==
    \/ den > 0 /\ 0 <= unum /\ unum <= den
    \/ den < 0 /\ den <= unum /\ unum <= 0

intersectRaySegment(rayOrigin, rayDir, p1, p2) ==
    LET v1 == rayOrigin
        sx == p1.x - p2.x
        sy == p1.y - p2.y
        tnum == MulDiv(v1.x - p1.x, sy, LEN) - MulDiv(v1.y - p1.y, sx, LEN)
        unum == -(MulDiv(v1.y - p1.y, -rayDir.x, ONE) - MulDiv(v1.x - p1.x, -rayDir.y, ONE))
    IN
    \* (v1.x - v2.x) = -rayDir.x with v2 = v1 + rayDir
    Let(MulDiv(sy, -rayDir.x, ONE) - MulDiv(sx, -rayDir.y, ONE), LAMBDA den :
        IF den = 0 THEN NoHit
        ELSE IF ~UnitInterval(unum, den) THEN NoHit
        ELSE Let(DivScale(tnum, den, LEN), LAMBDA t :
                 IF t > EPSILON
                 THEN Hit(t, Vec(v1.x + MulDiv(t, rayDir.x, ONE),
                                 v1.y + MulDiv(t, rayDir.y, ONE)), Vec(0, 0))
                 ELSE NoHit))

intersectRayCircle(rayOrigin, rayDir, center, radius) ==
    LET oc == sub(rayOrigin, center)
        c == MulDiv(oc.x, oc.x, LEN) + MulDiv(oc.y, oc.y, LEN) - MulDiv(radius, radius, LEN)
    IN
    Let(dot(rayDir, rayDir, ONE), LAMBDA a :
    Let(2 * dot(oc, rayDir, ONE), LAMBDA b :
    Let(MulDiv(b, b, LEN) - 4 * MulDiv(c, a, ONE), LAMBDA discriminant :
        IF discriminant < 0 \/ a = 0 THEN NoHit
        ELSE
    Let(SqrtFix(discriminant, LEN), LAMBDA sqrtDisc :
    Let(DivScale(-b - sqrtDisc, 2 * a, ONE), LAMBDA t1 :
    Let(DivScale(-b + sqrtDisc, 2 * a, ONE), LAMBDA t2 :
        IF t1 > EPSILON \/ t2 > EPSILON
        THEN Let(add(rayOrigin, mul(rayDir, IF t1 > EPSILON THEN t1 ELSE t2, ONE)),
                 LAMBDA point :
                 Hit(IF t1 > EPSILON THEN t1 ELSE t2, point, normalize(sub(point, center))))
        ELSE NoHit))))))

\* ------------------------------------------------------------------------
\* Tracer structures (raytracer.ts lines 434-457)
\* ------------------------------------------------------------------------
PendingRay(origin, dir, intensity, color, bounces, polarization, gaussian, isGaussian) ==
    [origin |-> origin, dir |-> dir, intensity |-> intensity, color |-> color,
     bounces |-> bounces, polarization |-> polarization, gaussian |-> gaussian,
     isGaussian |-> isGaussian]

\* closestHit = null
NoClosest == [type |-> "none"]

HitRecord(t, point, normal, type, component) ==
    [t |-> t, point |-> point, normal |-> normal, type |-> type, component |-> component]

\* minT = Infinity
Infinity == 2147483647

\* keys of the hits and hitColors records: a component id and a suffix
Key(id, suffix) == <<id, suffix>>

\* h[k] || 0
Get(h, k) == IF k \in DOMAIN h THEN h[k] ELSE 0

\* h[k] = v
Put(h, k, v) == [x \in DOMAIN h \cup {k} |-> IF x = k THEN v ELSE h[x]]

\* ------------------------------------------------------------------------
\* tracePolyline, the search for the closest hit (raytracer.ts lines 492-731)
\* acc = [minT, closestHit, err]: the candidate so far, and whether a
\* parameter read threw.
\* ------------------------------------------------------------------------
\* N flipped to face the incoming ray
Facing(N, currentDir) ==
    IF dot(currentDir, N, ONE) > 0 THEN mul(N, -ONE, ONE) ELSE N

Candidate(acc, hit, normal, type, comp) ==
    [acc EXCEPT !.minT = hit.t,
                !.closestHit = HitRecord(hit.t, hit.point, normal, type, comp)]

\* a segment element whose hit, when nearer, replaces the candidate
SegmentCandidate(acc, comp, seg, normal, type, o, d) ==
    Let(intersectRaySegment(o, d, seg.p1, seg.p2), LAMBDA hit :
        IF hit.hit /\ hit.t < acc.minT
        THEN Candidate(acc, hit, normal, type, comp)
        ELSE acc)

\* first chain: mirror, detector, aom, beamsplitter (lines 498-543)
ScanFirst(acc, comp, o, d) ==
    IF comp.type = "mirror" THEN
        Let(getMirrorSegment(comp), LAMBDA seg :
            SegmentCandidate(acc, comp, seg, Facing(seg.normal, d), "mirror", o, d))
    ELSE IF comp.type = "detector" THEN
        Let(getDetectorSegment(comp), LAMBDA seg :
            SegmentCandidate(acc, comp, seg, seg.normal, "detector", o, d))
    ELSE IF comp.type = "aom" THEN
        Let(getAOMSegment(comp), LAMBDA seg :
            SegmentCandidate(acc, comp, seg, Facing(seg.normal, d), "aom", o, d))
    ELSE IF comp.type = "beamsplitter" THEN
        Let(getBeamSplitterSegment(comp), LAMBDA seg :
            SegmentCandidate(acc, comp, seg, Facing(seg.normal, d), "beamsplitter", o, d))
    ELSE acc

\* fiber coupler (lines 546-584)
ScanFiber(acc, comp, o, d) ==
    Let(getFiberSegment(comp), LAMBDA seg :
    Let(intersectRaySegment(o, d, seg.p1, seg.p2), LAMBDA hit :
        IF hit.hit /\ hit.t < acc.minT THEN
            LET N == seg.normal
                cosIncident == -dot(d, N, ONE)
            IN  IF cosIncident > 0 THEN
                    LET coreRadius == ParamOr(comp, "coreSize", 12 * LEN) \div 2
                        faceCenter == Vec((seg.p1.x + seg.p2.x) \div 2,
                                          (seg.p1.y + seg.p2.y) \div 2)
                        distFromFaceCenter == mag(sub(hit.point, faceCenter))
                        thrown == [acc EXCEPT !.err = acc.err \/ ReadsThrow(comp, {"coreSize"})]
                    IN  Candidate(thrown, hit, N,
                                  IF distFromFaceCenter > coreRadius THEN "blocker" ELSE "fiber",
                                  comp)
                ELSE Candidate(acc, hit, N, "blocker", comp)
        ELSE acc))

\* an element that no ray meets
Transparent(acc, comp, o, d) == acc

\* iris / blocker (lines 587-605)
ScanIris(acc, comp, o, d) ==
    Let(getIrisSegment(comp), LAMBDA seg :
    Let(intersectRaySegment(o, d, seg.p1, seg.p2), LAMBDA hit :
        IF hit.hit /\ hit.t < acc.minT THEN
            LET aperture == Min2(ParamOr(comp, "aperture", 40 * LEN), 64 * LEN)
                dist == mag(sub(hit.point, comp.position))
            IN  Let([acc EXCEPT !.err = acc.err \/ ReadsThrow(comp, {"aperture"})],
                    LAMBDA thrown :
                    IF 2 * dist > aperture
                    THEN Candidate(thrown, hit, seg.normal, "blocker", comp)
                    ELSE thrown)
        ELSE acc))

\* optical cavity: left mirror, then right mirror (lines 608-628)
ScanCavity(acc, comp, o, d) ==
    Let(getCavitySegments(comp), LAMBDA segs :
        LET thrown == [acc EXCEPT !.err = acc.err \/ ReadsThrow(comp, {"cavityLength"})]
            afterLeft == SegmentCandidate(thrown, comp, segs.left,
                                          Facing(segs.left.normal, d), "cavity", o, d)
        IN  SegmentCandidate(afterLeft, comp, segs.right,
                             Facing(segs.right.normal, d), "cavity", o, d))

RECURSIVE ScanSurfaces(_, _, _, _, _, _)
\* lens: each boundary surface in turn (lines 694-730)
ScanSurfaces(acc, comp, surfaces, i, o, d) ==
    IF i > Len(surfaces) THEN acc
    ELSE LET sf == surfaces[i]
         IN
         Let(IF sf.type = "circle"
             THEN intersectRayCircle(o, d, sf.center, sf.radius)
             ELSE intersectRaySegment(o, d, sf.p1, sf.p2), LAMBDA h :
             LET N == IF ~h.hit THEN Vec(0, 0)
                      ELSE IF sf.type = "circle"
                      THEN (IF sf.normalFlip = -1 THEN mul(h.normal, -ONE, ONE) ELSE h.normal)
                      ELSE normalize(Vec(-(sf.p2.y - sf.p1.y), sf.p2.x - sf.p1.x))
                 next == IF h.hit /\ mag(sub(h.point, comp.position)) < 90 * LEN
                            /\ h.t < acc.minT
                         THEN Candidate(acc, h, N, "lens", comp)
                         ELSE acc
             IN  ScanSurfaces(next, comp, surfaces, i + 1, o, d))

\* second chain: fiber, iris/blocker, cavity, hwp, qwp, polarizer, pbs,
\* poldetector, detector, lens (lines 546-730)
ScanSecond(acc, comp, o, d) ==
    IF comp.type = "fiber" THEN ScanFiber(acc, comp, o, d)
    ELSE IF comp.type \in {"iris", "blocker"} THEN ScanIris(acc, comp, o, d)
    ELSE IF comp.type = "cavity" THEN ScanCavity(acc, comp, o, d)
    ELSE IF comp.type \in {"hwp", "qwp", "polarizer"} THEN
        Let(getWaveplateSegment(comp), LAMBDA seg :
            SegmentCandidate(acc, comp, seg, seg.normal, comp.type, o, d))
    ELSE IF comp.type = "pbs" THEN
        Let(getBeamSplitterSegment(comp), LAMBDA seg :
            SegmentCandidate(acc, comp, seg, Facing(seg.normal, d), "pbs", o, d))
    ELSE IF comp.type \in {"poldetector", "detector"} THEN
        Let(getDetectorSegment(comp), LAMBDA seg :
            SegmentCandidate(acc, comp, seg, seg.normal, comp.type, o, d))
    ELSE IF comp.type = "lens" THEN
        ScanSurfaces([acc EXCEPT !.err = acc.err \/ ReadsThrow(comp, {"focalLength", "lensShape"})],
                     comp, getLensBoundaries(comp), 1, o, d)
    ELSE acc

RECURSIVE ScanComponents(_, _, _, _, _)
\* for (const comp of components)
ScanComponents(acc, comps, i, o, d) ==
    IF i > Len(comps) THEN acc
    ELSE ScanComponents(ScanSecond(ScanFirst(acc, comps[i], o, d), comps[i], o, d),
                        comps, i + 1, o, d)

findClosestHit(components, currentOrigin, currentDir) ==
    ScanComponents([minT |-> Infinity, closestHit |-> NoClosest, err |-> FALSE],
                   components, 1, currentOrigin, currentDir)

\* ------------------------------------------------------------------------
\* tracePolyline, the interaction at the closest hit (raytracer.ts lines
\* 733-1141).  tr holds the locals of one call: pending, currentOrigin,
\* currentDir, currentIntensity, currentPol, currentGaussian, path,
\* gaussianList, currentRefractiveIndex, nextRays, hits, hitColors,
\* closestHit (its local loopLimit is a variable of its own, declared with
\* the state machine); running is FALSE once the loop has been left by
\* break, err is TRUE once a parameter read has thrown.
\* ------------------------------------------------------------------------
Break(tr) == [tr EXCEPT !.running = FALSE]

\* D - 2 (D . N) N
Reflect(D, N) == sub(D, mul(N, 2 * dot(D, N, ONE), ONE))

\* the child rays pushed by a split, each under its own condition
Spawn(tr, children) == [tr EXCEPT !.nextRays = tr.nextRays \o children]

\* a child pushed whatever its intensity
Unconditionally(cond, ray) == <<ray>>

\* if (intensity > MIN_INTENSITY) nextRays.push(ray)
ChildIf(cond, ray) == IF cond THEN <<ray>> ELSE << >>

\* a hit that ends the branch and spawns nothing
Absorb(tr, hit) == Break(tr)

\* a child ray leaving the hit point along dir, offset by k * EPSILON
ChildRay(tr, hit, dir, k, intensity, polarization, isGaussian) ==
    PendingRay(add(hit.point, mul(dir, EPSILON * k, ONE)), dir, intensity,
               tr.pending.color, tr.pending.bounces + 1, polarization,
               tr.currentGaussian, isGaussian)

\* mirror (lines 746-752)
HitMirror(tr, hit) ==
    Let(normalize(Reflect(tr.currentDir, hit.normal)), LAMBDA dir :
        [tr EXCEPT !.currentDir = dir,
                   !.currentOrigin = add(tr.currentOrigin, mul(dir, EPSILON * 2, ONE))])

\* polarization detector (lines 753-766)
HitPolDetector(tr, hit) ==
    Let(getStokes(tr.currentPol), LAMBDA stokes :
        LET id == hit.component.id
            h0 == Put(tr.hits, Key(id, ""), Get(tr.hits, Key(id, "")) + tr.currentIntensity)
            h1 == Put(h0, Key(id, "_s1"), stokes.s1)
            h2 == Put(h1, Key(id, "_s2"), stokes.s2)
            h3 == Put(h2, Key(id, "_s3"), stokes.s3)
        IN  Break([tr EXCEPT !.hits = h3]))

\* a detector that reports twice the power it absorbs
Doubling(tr, hit) ==
    Break([tr EXCEPT !.hits = Put(tr.hits, Key(hit.component.id, ""),
                                  Get(tr.hits, Key(hit.component.id, ""))
                                      + 2 * tr.currentIntensity)])

\* detector (lines 767-771)
HitDetector(tr, hit) ==
    LET id == hit.component.id
    IN  Break([tr EXCEPT !.hits =
                  Put(tr.hits, Key(id, ""), Get(tr.hits, Key(id, "")) + tr.currentIntensity)])

\* the coupling efficiency of a fiber for an incidence cosine (lines 778-793)
FiberCoupling(cosTheta, acceptance) ==
    Let(AcosDeg(Max2(-ONE, Min2(ONE, cosTheta))), LAMBDA thetaDeg :
    Let(DivScale(acceptance, 2355, 1000), LAMBDA sigma :
        IF cosTheta > 0 /\ thetaDeg <= acceptance /\ sigma # 0
        THEN Max2(0, Exp(-DivScale(thetaDeg * thetaDeg, 2 * sigma * sigma, ONE)))
        ELSE 0))

\* fiber coupler (lines 772-804)
HitFiber(tr, hit) ==
    LET id == hit.component.id
        acceptance == ParamOr(hit.component, "acceptanceAngle", 15 * DEG)
        thrown == [tr EXCEPT !.err = tr.err \/ ReadsThrow(hit.component, {"acceptanceAngle"})]
    IN
    Let(-dot(tr.currentDir, hit.normal, ONE), LAMBDA cosTheta :
    Let(FiberCoupling(cosTheta, acceptance), LAMBDA coupling :
    Let(MulDiv(tr.currentIntensity, coupling, ONE), LAMBDA coupled :
        IF coupling > 0
        THEN Break([thrown EXCEPT
                 !.hits = Put(tr.hits, Key(id, ""), Get(tr.hits, Key(id, "")) + coupled),
                 !.hitColors = IF coupled > MIN_INTENSITY
                               THEN Put(tr.hitColors, id, tr.pending.color)
                               ELSE tr.hitColors])
        ELSE Break(thrown))))

\* cavity mirror (lines 808-843)
HitCavity(tr, hit) ==
    LET reflectivity == ParamOr(hit.component, "reflectivity", (95 * ONE) \div 100)
        R == normalize(Reflect(tr.currentDir, hit.normal))
        reflected == MulDiv(tr.currentIntensity, reflectivity, ONE)
        transmitted == MulDiv(tr.currentIntensity, ONE - reflectivity, ONE)
        thrown == [tr EXCEPT !.err = tr.err \/ ReadsThrow(hit.component, {"reflectivity"})]
    IN  Break(Spawn(thrown,
            ChildIf(reflected > MIN_INTENSITY,
                    ChildRay(tr, hit, R, 2, reflected, tr.currentPol, tr.pending.isGaussian))
         \o ChildIf(transmitted > MIN_INTENSITY,
                    ChildRay(tr, hit, tr.currentDir, 2, transmitted, tr.currentPol,
                             tr.pending.isGaussian))))

\* acousto-optic modulator (lines 844-883)
HitAOM(tr, hit) ==
    LET efficiency == ParamOr(hit.component, "efficiency", ONE \div 2)
        deviation == ParamOr(hit.component, "deviation", 5 * DEG)
        zeroth == MulDiv(tr.currentIntensity, ONE - efficiency, ONE)
        first == MulDiv(tr.currentIntensity, efficiency, ONE)
        D == tr.currentDir
        newDir == Let(Cos(deviation), LAMBDA cos :
                  Let(Sin(deviation), LAMBDA sin :
                      normalize(Vec(MulDiv(D.x, cos, ONE) - MulDiv(D.y, sin, ONE),
                                    MulDiv(D.x, sin, ONE) + MulDiv(D.y, cos, ONE)))))
        thrown == [tr EXCEPT !.err = tr.err
                      \/ ReadsThrow(hit.component, {"efficiency", "deviation"})]
    IN  Break(Spawn(thrown,
            ChildIf(zeroth > MIN_INTENSITY,
                    ChildRay(tr, hit, D, 5, zeroth, tr.currentPol, tr.pending.isGaussian))
         \o ChildIf(first > MIN_INTENSITY,
                    ChildRay(tr, hit, newDir, 5, first, tr.currentPol, tr.pending.isGaussian))))

\* an element with gain, which no element of the table is: the branch ends
\* and one child of twice its intensity continues
Amplify(tr, hit) ==
    Break([tr EXCEPT
        !.nextRays = tr.nextRays \o
            <<PendingRay(add(hit.point, mul(tr.currentDir, EPSILON * 2, ONE)), tr.currentDir,
                         2 * tr.pending.intensity, tr.pending.color,
                         tr.pending.bounces + 1, tr.currentPol, tr.currentGaussian,
                         tr.pending.isGaussian)>>])

\* half-wave plate (retardance pi) and quarter-wave plate (pi / 2): the one
\* child is pushed without a test of its intensity (lines 885-932)
HitWaveplate(tr, hit, defaultAxis, retardance) ==
    LET fastAxis == ParamOr(hit.component, "fastAxis", defaultAxis)
        thrown == [tr EXCEPT !.err = tr.err \/ ReadsThrow(hit.component, {"fastAxis"})]
    IN
    Let(applyWaveplate(tr.currentPol, fastAxis, retardance), LAMBDA rotated :
    Let(MulDiv(tr.pending.intensity, getIntensity(rotated), ONE), LAMBDA intensity :
    Let(normalizeJones(rotated), LAMBDA pol :
    Let(add(hit.point, mul(tr.currentDir, EPSILON * 2, ONE)), LAMBDA origin :
        Break([thrown EXCEPT
            !.currentPol = pol,
            !.currentIntensity = intensity,
            !.currentOrigin = origin,
            !.nextRays = tr.nextRays \o
                <<PendingRay(origin, tr.currentDir, intensity, tr.pending.color,
                             tr.pending.bounces + 1, pol, tr.currentGaussian,
                             "undefined")>>])))))

\* polarizer (lines 934-958)
HitPolarizer(tr, hit) ==
    LET axis == ParamOr(hit.component, "polarizerAxis", 0)
    IN
    Let(applyPolarizer(tr.currentPol, axis), LAMBDA filtered :
    Let(MulDiv(tr.pending.intensity, getIntensity(filtered), ONE), LAMBDA intensity :
    Let(normalizeJones(filtered), LAMBDA pol :
    Let(add(hit.point, mul(tr.currentDir, EPSILON * 2, ONE)), LAMBDA origin :
    Let([tr EXCEPT !.err = tr.err \/ ReadsThrow(hit.component, {"polarizerAxis"}),
                   !.currentPol = pol,
                   !.currentIntensity = intensity], LAMBDA thrown :
        IF intensity > MIN_INTENSITY
        THEN Break([thrown EXCEPT
                !.currentOrigin = origin,
                !.nextRays = tr.nextRays \o
                    <<PendingRay(origin, tr.currentDir, intensity, tr.pending.color,
                                 tr.pending.bounces + 1, pol, tr.currentGaussian,
                                 tr.pending.isGaussian)>>])
        ELSE Break(thrown))))))

\* polarizing beam splitter (lines 960-1011)
HitPBS(tr, hit) ==
    LET id == hit.component.id
        axis == ParamOr(hit.component, "pbsAxis", 0)
        R_dir == normalize(Reflect(tr.currentDir, hit.normal))
        thrown == [tr EXCEPT !.err = tr.err \/ ReadsThrow(hit.component, {"pbsAxis"}),
                             !.hits = Put(tr.hits, Key(id, ""),
                                          Get(tr.hits, Key(id, "")) + tr.pending.intensity)]
    IN
    Let(applyPolarizer(tr.currentPol, axis), LAMBDA transPol :
    Let(MulDiv(tr.pending.intensity, getIntensity(transPol), ONE), LAMBDA transInt :
    Let(applyPolarizer(tr.currentPol, axis + 90 * DEG), LAMBDA reflPol :
    Let(MulDiv(tr.pending.intensity, getIntensity(reflPol), ONE), LAMBDA reflInt :
        Break(Spawn(thrown,
            ChildIf(transInt > MIN_INTENSITY,
                    ChildRay(tr, hit, tr.currentDir, 2, transInt, normalizeJones(transPol),
                             tr.pending.isGaussian))
         \o ChildIf(reflInt > MIN_INTENSITY,
                    ChildRay(tr, hit, R_dir, 2, reflInt, normalizeJones(reflPol),
                             tr.pending.isGaussian))))))))

\* beam splitter: reflected child first, then transmitted (lines 1099-1135)
HitBeamSplitter(tr, hit) ==
    LET ratio == ParamOr(hit.component, "transmission", ONE \div 2)
        R_dir == normalize(Reflect(tr.currentDir, hit.normal))
        T_dir == tr.currentDir
        reflected == MulDiv(tr.pending.intensity, ONE - ratio, ONE)
        transmitted == MulDiv(tr.pending.intensity, ratio, ONE)
        thrown == [tr EXCEPT !.err = tr.err \/ ReadsThrow(hit.component, {"transmission"})]
    IN  Break(Spawn(thrown,
            ChildIf(reflected > MIN_INTENSITY,
                    ChildRay(tr, hit, R_dir, 2, reflected, tr.currentPol, tr.pending.isGaussian))
         \o ChildIf(transmitted > MIN_INTENSITY,
                    ChildRay(tr, hit, T_dir, 2, transmitted, tr.currentPol,
                             tr.pending.isGaussian))))

\* lens surface: refraction by Snell's law or total internal reflection, and
\* the Gaussian transform when the second medium is air (lines 1012-1098)
HitLens(tr, hit) ==
    Let(dot(tr.currentDir, hit.normal, ONE) < 0, LAMBDA entering :
    Let(IF entering THEN hit.normal ELSE mul(hit.normal, -ONE, ONE), LAMBDA normal :
    Let(IF entering THEN tr.currentRefractiveIndex ELSE REFRACTIVE_INDEX_GLASS, LAMBDA n1 :
    Let(IF entering THEN REFRACTIVE_INDEX_GLASS ELSE REFRACTIVE_INDEX_AIR, LAMBDA n2 :
    Let(DivScale(n1, n2, ONE), LAMBDA r :
    Let(-dot(normal, tr.currentDir, ONE), LAMBDA c :
    Let(ONE - MulDiv(Square(r), ONE - Square(c), ONE), LAMBDA discrim :
    Let(IF discrim < 0
        THEN normalize(sub(tr.currentDir, mul(normal, -2 * c, ONE)))
        ELSE normalize(add(mul(tr.currentDir, r, ONE),
                           mul(normal, MulDiv(r, c, ONE) - SqrtFix(discrim, ONE), ONE))),
        LAMBDA dir :
        LET index == IF discrim < 0 THEN tr.currentRefractiveIndex ELSE n2
            f0 == ParamOrTruthy(hit.component, "focalLength", 100 * LEN)
            shape == StringOr(hit.component, "lensShape", "convex")
            f == IF IsConcave(shape) THEN -f0 ELSE f0
            gaussian == IF n2 = REFRACTIVE_INDEX_AIR
                        THEN lensTransformGaussian(tr.currentGaussian, f)
                        ELSE tr.currentGaussian
        IN  [tr EXCEPT
                !.err = tr.err \/ ReadsThrow(hit.component, {"focalLength", "lensShape"}),
                !.currentDir = dir,
                !.currentRefractiveIndex = index,
                !.currentGaussian = gaussian,
                !.currentOrigin = add(tr.currentOrigin, mul(dir, EPSILON * 2, ONE))]))))))))

\* the dispatch on the kind of the closest hit (lines 746-1135)
Interact(tr, hit) ==
    IF hit.type = "mirror" THEN HitMirror(tr, hit)
    ELSE IF hit.type = "poldetector" THEN HitPolDetector(tr, hit)
    ELSE IF hit.type = "detector" THEN HitDetector(tr, hit)
    ELSE IF hit.type = "fiber" THEN HitFiber(tr, hit)
    ELSE IF hit.type = "blocker" THEN Break(tr)
    ELSE IF hit.type = "cavity" THEN HitCavity(tr, hit)
    ELSE IF hit.type = "aom" THEN HitAOM(tr, hit)
    ELSE IF hit.type = "hwp" THEN HitWaveplate(tr, hit, 0, 180 * DEG)
    ELSE IF hit.type = "qwp" THEN HitWaveplate(tr, hit, 45 * DEG, 90 * DEG)
    ELSE IF hit.type = "polarizer" THEN HitPolarizer(tr, hit)
    ELSE IF hit.type = "pbs" THEN HitPBS(tr, hit)
    ELSE IF hit.type = "lens" THEN HitLens(tr, hit)
    ELSE IF hit.type = "beamsplitter" THEN HitBeamSplitter(tr, hit)
    ELSE tr

\* the locals of tracePolyline at its entry (lines 461-478)
TraceEntry(pending) ==
    [pending |-> pending,
     currentOrigin |-> pending.origin,
     currentDir |-> pending.dir,
     currentIntensity |-> pending.intensity,
     currentPol |-> pending.polarization,
     currentGaussian |-> pending.gaussian,
     path |-> <<pending.origin>>,
     gaussianList |-> << >>,
     currentRefractiveIndex |-> REFRACTIVE_INDEX_AIR,
     nextRays |-> << >>,
     hits |-> << >>,
     hitColors |-> << >>,
     closestHit |-> NoClosest,
     running |-> TRUE,
     err |-> FALSE]

\* a budget that is not spent
Unspent(loopLimit) == loopLimit

\* loopLimit-- (line 491)
Decrement(loopLimit) == loopLimit - 1

\* while (loopLimit > 0) (line 480), not left by a break
LoopContinues(tr, loopLimit) == tr.running /\ loopLimit > 0

\* isNaN of a coordinate of the origin or of the direction (line 482)
HasNaN(tr) ==
    \/ IsNaN(tr.currentOrigin.x) \/ IsNaN(tr.currentOrigin.y)
    \/ IsNaN(tr.currentDir.x) \/ IsNaN(tr.currentDir.y)

\* the budget after one iteration: the NaN check breaks before the decrement
\* (lines 482-491)
Spend(tr, loopLimit) == IF HasNaN(tr) THEN loopLimit ELSE Decrement(loopLimit)

\* a step that ends the branch where it stands, leaving its path as it is
Vanish(tr, components) == Break(tr)

\* one iteration of the while loop (lines 480-1142)
TraceIteration(tr, components) ==
    IF HasNaN(tr)
    THEN Break(tr)
    ELSE Let(findClosestHit(components, tr.currentOrigin, tr.currentDir), LAMBDA found :
             LET hit == found.closestHit
                 stepped == [tr EXCEPT
                     !.closestHit = hit,
                     !.err = tr.err \/ found.err,
                     !.gaussianList = Append(tr.gaussianList, tr.currentGaussian)]
             IN  IF hit.type # "none"
                 THEN LET dist == mag(sub(hit.point, tr.currentOrigin))
                      IN  Interact([stepped EXCEPT
                              !.currentGaussian = propagateGaussian(tr.currentGaussian, dist),
                              !.path = Append(tr.path, hit.point),
                              !.currentOrigin = hit.point], hit)
                 ELSE Break([stepped EXCEPT
                          !.path = Append(tr.path, add(tr.currentOrigin,
                                              mul(tr.currentDir, MAX_RAY_LENGTH, ONE)))]))

\* a record of the branch as it is when it ends, not as it was queued
EndState(tr) ==
    [start |-> tr.currentOrigin,
     direction |-> tr.currentDir,
     intensity |-> tr.currentIntensity,
     color |-> tr.pending.color,
     path |-> tr.path,
     polarization |-> tr.currentPol,
     gaussianParamsList |-> << >>,
     isGaussian |-> tr.pending.isGaussian]

\* the value tracePolyline returns (lines 1144-1158)
VisualRay(tr) ==
    [start |-> tr.pending.origin,
     direction |-> tr.pending.dir,
     intensity |-> tr.pending.intensity,
     color |-> tr.pending.color,
     path |-> tr.path,
     polarization |-> tr.pending.polarization,
     gaussianParamsList |-> IF tr.pending.isGaussian = "true" THEN tr.gaussianList ELSE << >>,
     isGaussian |-> tr.pending.isGaussian]

\* ------------------------------------------------------------------------
\* calculateRays, the seeding of the queue (raytracer.ts lines 1167-1305)
\* ------------------------------------------------------------------------
\* Math.round of an angle, in whole degrees
MathRound(angle) == (2 * angle + DEG) \div (2 * DEG)

\* a % n of JavaScript: the sign of the dividend
JsMod(a, n) == Sgn(a) * (Abs(a) % n)

\* the emission direction of a laser (lines 1170-1176)
LaserDir(laser) ==
    LET rot == JsMod(MathRound(laser.rotation), 360)
    IN  IF rot = 0 THEN Vec(ONE, 0)
        ELSE IF rot = 90 THEN Vec(0, ONE)
        ELSE IF rot = 180 THEN Vec(-ONE, 0)
        ELSE IF rot = 270 THEN Vec(0, -ONE)
        ELSE Vec(Cos(laser.rotation), Sin(laser.rotation))

\* a polarization angle relative to the table, whatever the rotation
TableFrame(laser) == getLinearPolarization(ParamOr(laser, "polarization", 0))

\* the polarization of a laser's rays (lines 1186-1188)
LaserPolarization(laser) ==
    rotateJonesVector(getLinearPolarization(ParamOr(laser, "polarization", 0)),
                      -laser.rotation)

\* the initial Gaussian parameters (lines 1191-1201); lambda = 0.532
InitialGaussian(laser) ==
    LET w0 == ParamOr(laser, "beamDiameter", 5 * LEN) \div 2
        lambda == (532 * LEN) \div 1000
    IN  Gauss(w0, 0, DivScale(MulDiv(MulDiv(w0, w0, LEN), PI, ONE), lambda, LEN), lambda)

SeedRay(laser, origin, intensity) ==
    PendingRay(origin, LaserDir(laser), intensity,
               StringOr(laser, "color", "#ff0000"), 0,
               LaserPolarization(laser), InitialGaussian(laser), "false")

\* a laser that emits its whole power in one ray, whatever its glow
CoreOnly(laser) ==
    <<SeedRay(laser, laser.position, ParamOr(laser, "brightness", PW))>>

\* simple profile: the core ray and two side rays (lines 1246-1303)
SimpleSeeds(laser) ==
    LET totalPower == ParamOr(laser, "brightness", PW)
        glowRatio == ParamOr(laser, "glow", (4 * ONE) \div 10)
        offset == (25 * LEN) \div 10
    IN
    Let(MulDiv(totalPower, ONE - glowRatio, ONE), LAMBDA coreIntensity :
    Let(DivScale(MulDiv(totalPower, glowRatio, ONE), 2, 1), LAMBDA sideIntensity :
    Let(LaserDir(laser), LAMBDA dir :
    Let(mul(Vec(-dir.y, dir.x), offset, ONE), LAMBDA perpOffset :
        ChildIf(coreIntensity > MIN_INTENSITY,
                SeedRay(laser, laser.position, coreIntensity))
     \o ChildIf(sideIntensity > MIN_INTENSITY,
                SeedRay(laser, add(laser.position, perpOffset), sideIntensity))
     \o ChildIf(sideIntensity > MIN_INTENSITY,
                SeedRay(laser, sub(laser.position, perpOffset), sideIntensity))))))

numRays == 19

\* gaussian profile: ray i of numRays, at an offset across +/- 2 w0, weighted
\* exp(-2 r^2 / w^2) (lines 1206-1225).  beamRadiusMm is the beam diameter
\* divided by 2000: offsets are computed in thousandths of the length unit.
GaussianOffset(laser, i) ==
    LET beamRadius == ParamOr(laser, "beamDiameter", 5 * LEN) \div 2
        range == 4 * beamRadius
        step == DivScale(range, numRays - 1, 1)
    IN  -(range \div 2) + i * step

GaussianWeight(laser, i) ==
    LET beamRadius == ParamOr(laser, "beamDiameter", 5 * LEN) \div 2
        offset == GaussianOffset(laser, i)
    IN  IF beamRadius = 0 THEN 0
        ELSE Exp(-2 * DivScale(offset * offset, beamRadius * beamRadius, ONE))

RECURSIVE SumWeights(_, _)
SumWeights(laser, i) ==
    IF i >= numRays THEN 0 ELSE GaussianWeight(laser, i) + SumWeights(laser, i + 1)

\* ray i of the gaussian profile, normalised by the sum of the weights, queued
\* when above the floor (lines 1227-1244)
GaussianSeed(laser, i, sumIntens) ==
    LET totalPower == ParamOr(laser, "brightness", PW)
    IN
    Let(IF sumIntens = 0 THEN 0
        ELSE MulDiv(totalPower, DivScale(GaussianWeight(laser, i), sumIntens, ONE), ONE),
        LAMBDA realIntensity :
    Let(LaserDir(laser), LAMBDA dir :
        LET perp == Vec(-dir.y, dir.x)
            origin == add(laser.position,
                          mul(perp, DivScale(GaussianOffset(laser, i), LEN, 1), ONE))
        IN  ChildIf(realIntensity > MIN_INTENSITY, SeedRay(laser, origin, realIntensity))))

RECURSIVE Concat(_, _)
\* the sequences of ss from the i-th on, joined
Concat(ss, i) == IF i > Len(ss) THEN << >> ELSE ss[i] \o Concat(ss, i + 1)

GaussianSeeds(laser) ==
    Let(SumWeights(laser, 0), LAMBDA sumIntens :
        Concat([i \in 1..numRays |-> GaussianSeed(laser, i - 1, sumIntens)], 1))

LaserSeeds(laser) ==
    IF ParamOr(laser, "profile", "simple") = "gaussian"
    THEN GaussianSeeds(laser)
    ELSE SimpleSeeds(laser)

LaserParams == {"color", "brightness", "glow", "profile", "beamDiameter", "polarization"}

IsLaser(c) == c.type = "laser"

\* components.filter(c => c.type === 'laser'): a new list (line 1167)
Lasers(components) == SelectSeq(components, IsLaser)

RECURSIVE SeedQueue(_, _)
\* lasers.forEach: the seeds of every laser, in the order of the list
SeedQueue(lasers, i) ==
    IF i > Len(lasers) THEN << >>
    ELSE LaserSeeds(lasers[i]) \o SeedQueue(lasers, i + 1)

\* a list filtered in place
Filtered(scene) == Lasers(scene)

\* calculateRays(components): the parameter is the caller's list itself
\* (line 1161)
Argument(scene) == scene

SeedThrows(components) ==
    \E i \in 1..Len(components) :
        components[i].type = "laser" /\ ReadsThrow(components[i], LaserParams)

\* ------------------------------------------------------------------------
\* calculateRays, the post-processing of the polarization detectors
\* (raytracer.ts lines 1338-1360)
\* ------------------------------------------------------------------------
\* (Math.atan2(y, x) * 180) / Math.PI, in (-180, 180] degrees
Atan2Deg(y, x) ==
    IF x = 0 /\ y = 0 THEN 0
    ELSE (IF y < 0 THEN -1 ELSE 1) * AcosDeg(normalize(Vec(x, y)).x)

\* (Math.asin(r) * 180) / Math.PI
AsinDeg(r) == 90 * DEG - AcosDeg(r)

\* a detector that derives nothing from what it accumulated
Unread(hits, id) == hits

PolDetectorReadout(hits, id) ==
    LET s0 == Get(hits, Key(id, ""))
        s1 == Get(hits, Key(id, "_s1"))
        s2 == Get(hits, Key(id, "_s2"))
        s3 == Get(hits, Key(id, "_s3"))
    IN  IF s0 > 0
        THEN LET psiDeg == DivScale(Atan2Deg(s2, s1), 2, 1)
                 angle == (JsMod(psiDeg, 180 * DEG) + 180 * DEG) % (180 * DEG)
                 \* s3 / s0, s3 a sum of Stokes components and s0 a power
                 ratio == Max2(-ONE, Min2(ONE, DivScale(MulDiv(s3, PW, ONE), s0, ONE)))
                 chiDeg == DivScale(AsinDeg(ratio), 2, 1)
             IN  Put(Put(hits, Key(id, "_pol"), angle), Key(id, "_ellipticity"), chiDeg)
        ELSE hits

RECURSIVE PostProcess(_, _, _)
\* detectors.forEach over components.filter(c => c.type === 'poldetector')
PostProcess(hits, components, i) ==
    IF i > Len(components) THEN hits
    ELSE PostProcess(IF components[i].type = "poldetector"
                     THEN PolDetectorReadout(hits, components[i].id)
                     ELSE hits,
                     components, i + 1)

\* ------------------------------------------------------------------------
\* calculateRays, the queue loop (raytracer.ts lines 1308-1336)
\* ------------------------------------------------------------------------
\* a loop condition that never ends the loop
Forever(queue) == TRUE

\* while (queue.length > 0)
QueueLoopContinues(queue) == Len(queue) > 0

\* a loop without the cap
Uncapped(finalRays) == FALSE

\* if (finalRays.length >= MAX_TOTAL_RAYS) break
CapReached(finalRays) == Len(finalRays) >= MAX_TOTAL_RAYS

\* totalHits[id] = (totalHits[id] || 0) + val, over the entries of result.hits
AccumulateHits(totalHits, hits) ==
    [k \in DOMAIN totalHits \cup DOMAIN hits |->
        IF k \in DOMAIN hits THEN Get(totalHits, k) + hits[k] ELSE totalHits[k]]

\* an aggregation in which the first color of an element stays
FirstWins(totalHitColors, hitColors) ==
    [k \in DOMAIN totalHitColors \cup DOMAIN hitColors |->
        IF k \in DOMAIN totalHitColors THEN totalHitColors[k] ELSE hitColors[k]]

\* totalHitColors[id] = color, over the entries of result.hitColors
AggregateColors(totalHitColors, hitColors) ==
    [k \in DOMAIN totalHitColors \cup DOMAIN hitColors |->
        IF k \in DOMAIN hitColors THEN hitColors[k] ELSE totalHitColors[k]]

\* a queue that takes every child
Unbounded(child) == TRUE

\* if (child.bounces < MAX_BOUNCES) queue.push(child)
Admitted(child) == child.bounces < MAX_BOUNCES

\* a work list served last in, first out
Stack(queue, nextRays) == SelectSeq(nextRays, Admitted) \o queue

Enqueue(queue, nextRays) == queue \o SelectSeq(nextRays, Admitted)

\* a record kept from one call to the next
KeptHits(previous) == previous

\* const totalHits = {}, a fresh record at every call (line 1163)
FreshHits(previous) == << >>

\* ------------------------------------------------------------------------
\* Scenes: the inputs the engine is run on
\* ------------------------------------------------------------------------
\* a component without params, placed at (x, y) and rotated by rot degrees
Comp(id, type, x, y, rot) ==
    [id |-> id, type |-> type, position |-> Vec(x * LEN, y * LEN), rotation |-> rot * DEG]

With(comp, params) == [params |-> params] @@ comp

\* the number of calls of calculateRays made on one scene
MaxCalls == 2

Laser0 == Comp("L1", "laser", 0, 0, 0)

\* a laser whose whole power is in the core ray
CoreLaser(brightness) == With(Laser0, [glow |-> 0, brightness |-> brightness])

SceneMirror ==
    { <<Laser0, Comp("M1", "mirror", 100, 0, 135), Comp("D1", "detector", 100, 100, 90)>> }

\* the laser of the engine's tests: a power and a color, no glow
TestLaser == With(Laser0, [power |-> PW, color |-> "red"])

\* a laser and nothing else: a laser without parameters, and the laser of the
\* tests
SceneLone ==
    { <<Laser0>>, <<TestLaser>>, <<CoreLaser(MIN_INTENSITY)>>,
      <<With(Laser0, [glow |-> ONE])>>, <<With(Laser0, [glow |-> ONE \div 4, brightness |-> 2 * PW])>> }

\* a laser alone at a rotation given in degrees times DEG: the cardinal
\* angles, a full turn, oblique and negative angles, and angles within half
\* a degree of a cardinal angle
SceneRotated ==
    { <<[Laser0 EXCEPT !.rotation = rot]>> :
        rot \in {90 * DEG, 180 * DEG, 270 * DEG, 360 * DEG, 30 * DEG, -30 * DEG, -90 * DEG,
                 4, -4, 5, 896, 1796, 2704} }
    \cup
    { <<With([Laser0 EXCEPT !.rotation = 904], [profile |-> "gaussian"])>> }

\* a laser of rotation rho and polarization p aimed at a polarization detector
\* 200 away with nothing in between: <<rho, p, x, y>>, the first the scene of
\* the test 'should rotate polarization with laser body'
ScenePolBody ==
    { <<With(Comp("l1", "laser", 0, 0, c[1]), [polarization |-> c[2] * DEG, glow |-> 0]),
        Comp("det1", "poldetector", c[3], c[4], c[1])>> :
        c \in {<<30, 0, 173, 100>>, <<0, 45, 200, 0>>, <<90, 0, 0, 200>>,
               <<90, 135, 0, 200>>, <<-30, 20, 173, -100>>, <<45, 45, 141, 141>>} }
    \cup
    { <<With(Comp("l1", "laser", 0, 0, 30), [polarization |-> 60 * DEG]),
        Comp("det1", "poldetector", 173, 100, 30)>> }

\* a laser alone whose position has a coordinate that is not a number or is
\* infinite
SceneNonFinite ==
    { <<[Laser0 EXCEPT !.position = pos]>> :
        pos \in {Vec(NaN, 0), Vec(0, NaN), Vec(Infinity, 0), Vec(0, Infinity)} }

\* elements listed out of beam order, two elements on the same segment, a
\* lens below a beam that meets its surfaces' circles more than 90 from the
\* lens's center, a detector behind, and a lens 300 from the laser
SceneNearest ==
    { <<CoreLaser(PW), Comp("D1", "detector", 200, 0, 0), Comp("M1", "mirror", 100, 0, 135),
        Comp("D2", "detector", 100, 150, 90), Comp("B1", "beamsplitter", 100, 50, 0)>>,
      <<CoreLaser(PW), Comp("H1", "hwp", 100, 0, 0), Comp("P1", "polarizer", 100, 0, 0)>>,
      <<CoreLaser(PW), Comp("P1", "polarizer", 100, 0, 0), Comp("H1", "hwp", 100, 0, 0)>>,
      <<CoreLaser(PW), Comp("D1", "detector", 200, 0, 0), Comp("I1", "iris", 100, 0, 0),
        Comp("H1", "hwp", 150, 0, 0)>>,
      <<With(Comp("L1", "laser", 0, 95, 0), [glow |-> 0]), Comp("L2", "lens", 100, 0, 0),
        Comp("D1", "detector", 200, 95, 0)>>,
      <<With(Comp("L1", "laser", 0, 95, 0), [glow |-> 0]), Comp("D1", "detector", 200, 95, 0),
        With(Comp("L2", "lens", 100, 0, 0), [lensShape |-> "concave"])>> }
    \cup
    { <<CoreLaser(PW), With(Comp("L2", "lens", 300, 0, 0), [lensShape |-> shape])>> :
        shape \in {"concave", "convex"} }

\* a laser of polarization p facing a polarizing beam splitter of axis a, a
\* detector in each output; a strong laser and one near the intensity floor
ScenePBS ==
    { <<With(Laser0, [glow |-> 0, polarization |-> p * DEG, brightness |-> b]),
        With(Comp("PB1", "pbs", 100, 0, 0), [pbsAxis |-> a * DEG]),
        Comp("D1", "detector", 200, 0, 0),
        Comp("D2", "detector", 100, 100, 90),
        Comp("D3", "detector", 100, -100, 90)>> :
        p \in {0, 45, 90}, a \in {0, 30, 45}, b \in {PW, (3 * MIN_INTENSITY) \div 2} }

\* a laser facing a detector and nothing else: the laser of the tests, a
\* laser without glow, a weak laser whose side rays are below the floor, and
\* a laser of gaussian profile
SceneDetector ==
    { <<laser, With(Comp("det1", "detector", 200, 0, 0), << >>)>> :
        laser \in {TestLaser, CoreLaser(PW), With(Laser0, [brightness |-> 3 * MIN_INTENSITY]),
                   With(Laser0, [profile |-> "gaussian", brightness |-> 2 * PW])} }

\* a laser without glow at height y aimed along +x at the plane of an iris
\* centred on the axis, a detector behind it: the aperture is 10, the default
\* (40) or 100, and the ray crosses the plane at the center, 6 from it or 36
\* from it
SceneIris ==
    { <<With(Comp("l1", "laser", 0, y, 0), [power |-> PW, glow |-> 0]),
        iris, Comp("D1", "detector", 200, 0, 0)>> :
        y \in {0, 6, 36},
        iris \in {Comp("iris1", "iris", 100, 0, 0)}
                 \cup {With(Comp("iris1", "iris", 100, 0, 0), [aperture |-> a * LEN]) :
                          a \in {10, 100}} }

\* a laser without glow aimed along +x at a fiber coupler: a coupler of
\* acceptance 30 and core 24 met at 0, 15 and 45 degrees, a coupler of the
\* default acceptance (15) met at 20 degrees, and a default coupler (core 12)
\* met head-on 10 off its axis
SceneFiber ==
    { <<With(Comp("laser1", "laser", 0, 0, 0), [power |-> PW, brightness |-> PW, glow |-> 0]),
        With(Comp("fib1", "fiber", 200, 0, rot), [acceptanceAngle |-> 30 * DEG, coreSize |-> 24 * LEN])>> :
        rot \in {0, 15, 45} }
    \cup
    { <<CoreLaser(PW), With(Comp("fib1", "fiber", 200, 0, 20), [coreSize |-> 24 * LEN])>>,
      <<With(Comp("laser1", "laser", 0, 10, 0), [glow |-> 0]), Comp("fib1", "fiber", 200, 0, 0)>> }
    \cup
    \* a red and a green laser at one coupler, in either order: the green ray
    \* meets the core head-on, at 7.5 degrees (strong or weak), at 20 degrees,
    \* or passes outside the core
    UNION { { <<With(Laser0, [glow |-> 0, color |-> "#ff0000"]),
                Comp("fib1", "fiber", 200, 0, 0), green>>,
              <<green, Comp("fib1", "fiber", 200, 0, 0),
                With(Laser0, [glow |-> 0, color |-> "#ff0000"])>>,
              <<green, Comp("fib1", "fiber", 200, 0, 0)>> } :
            green \in
              { [id |-> "L2", type |-> "laser", position |-> Vec(x[1], x[2]), rotation |-> x[3],
                 params |-> [glow |-> 0, color |-> "#00ff00", brightness |-> x[4]]] :
                x \in { <<0, 3 * LEN, 0, PW>>,
                        <<35283, -19579, 75, PW>>,
                        <<35283, -19579, 75, (15 * MIN_INTENSITY) \div 10>>,
                        <<43047, -51303, 200, PW>>,
                        <<0, 10 * LEN, 0, PW>> } } }

\* a laser aimed at a mirror rotated 135 degrees, and nothing else
SceneMirrorAlone ==
    { <<TestLaser, With(Comp("M1", "mirror", 200, 0, 135), << >>)>> }

\* two facing ideal mirrors with the laser between them
SceneFacingMirrors ==
    { <<CoreLaser(PW), Comp("M1", "mirror", 100, 0, 0), Comp("M2", "mirror", -100, 0, 0)>> }

SceneBeamSplitter ==
    { <<CoreLaser(b), bs, Comp("D1", "detector", 200, 0, 0),
        Comp("D2", "detector", 100, -100, 90)>> :
        b \in {PW, (15 * MIN_INTENSITY) \div 10},
        bs \in {Comp("BS1", "beamsplitter", 100, 0, 0)}
               \cup {With(Comp("BS1", "beamsplitter", 100, 0, 0), [transmission |-> r]) :
                        r \in {0, 3000, ONE}} }

\* a chain of 50/50 beam splitters
SceneSplitterChain ==
    { <<Laser0, Comp("BS1", "beamsplitter", 100, 0, 0), Comp("BS2", "beamsplitter", 200, 0, 0),
        Comp("BS3", "beamsplitter", 300, 0, 0), Comp("BS4", "beamsplitter", 100, -100, 0),
        Comp("T1", "text", 0, 50, 0)>> }

SceneAOM ==
    { <<CoreLaser(PW), aom, Comp("D1", "detector", 300, 0, 0)>> :
        aom \in {Comp("A1", "aom", 100, 0, 0)}
                \cup {With(Comp("A1", "aom", 100, 0, 0), [efficiency |-> e, deviation |-> d]) :
                         e \in {0, 2500, ONE}, d \in {90 * DEG, -(10 * DEG)}} }

\* a cavity of reflectivity 0.95 (the default) or r, lit from outside or from
\* inside
SceneCavity ==
    { <<With(Laser0, [glow |-> 0]), Comp("C1", "cavity", 100, 0, 0)>>,
      <<Comp("C1", "cavity", 0, 0, 0), Laser0>>,
      <<With(Laser0, [glow |-> 0]),
        With(Comp("C1", "cavity", 100, 0, 0), [reflectivity |-> 5000, cavityLength |-> 60 * LEN])>>,
      <<CoreLaser((15 * MIN_INTENSITY) \div 10), Comp("C1", "cavity", 100, 0, 0)>> }

ScenePolarization ==
    { <<With(Laser0, [glow |-> 0, polarization |-> p, brightness |-> b]),
        With(Comp("P1", "polarizer", 50, 0, 0), [polarizerAxis |-> a]),
        Comp("H1", "hwp", 100, 0, 0),
        Comp("Q1", "qwp", 150, 0, 0),
        Comp("PB1", "pbs", 200, 0, 0),
        Comp("PD1", "poldetector", 300, 0, 0),
        Comp("D1", "detector", 200, -100, 90)>> :
        p \in {0, 45 * DEG}, a \in {0, 30 * DEG, 90 * DEG}, b \in {PW, MIN_INTENSITY + MIN_INTENSITY \div 50} }
    \cup
    { <<With(Laser0, [glow |-> 0, brightness |-> MIN_INTENSITY + 1]),
        With(Comp("H1", "hwp", 100, 0, 0), [fastAxis |-> 10 * DEG]),
        Comp("PD1", "poldetector", 300, 0, 0)>>,
      <<Laser0, Comp("P1", "polarizer", 50, 0, 0), Comp("PD1", "poldetector", 300, 0, 0)>>,
      <<With(Laser0, [glow |-> 0, polarization |-> 45 * DEG]),
        With(Comp("P1", "polarizer", 50, 0, 0), [polarizerAxis |-> 45 * DEG]),
        Comp("PD1", "poldetector", 300, 0, 0)>> }
    \cup
    { <<CoreLaser(b),
        With(Comp("Q1", "qwp", 100, 0, 0), [fastAxis |-> 45 * DEG]),
        Comp("PD1", "poldetector", 300, 0, 0)>> : b \in {PW, 2 * PW} }
    \cup
    { <<With(Laser0, [glow |-> 0, polarization |-> p * DEG]),
        With(Comp("H1", "hwp", 100, 0, 0), [fastAxis |-> a]),
        Comp("PD1", "poldetector", 300, 0, 0)>> :
        p \in {0, 30}, a \in {0, 225, 45 * DEG, 90 * DEG} }
    \cup
    { <<CoreLaser(PW), With(Comp("Q1", "qwp", 100, 0, 0), [fastAxis |-> 5 * DEG]),
        Comp("D1", "detector", 300, 0, 0)>> }

SceneApertures ==
    { <<Laser0, iris, Comp("L2", "lens", 100, 0, 0), Comp("F1", "fiber", 300, 0, 0)>> :
        iris \in {Comp("I1", "iris", 50, 0, 0),
                  With(Comp("I1", "iris", 50, 0, 0), [aperture |-> 4 * LEN]),
                  Comp("B1", "blocker", 50, 0, 0)} }
    \cup
    { <<With(Laser0, [profile |-> "gaussian"]), Comp("F1", "fiber", 100, 0, 0)>>,
      <<Laser0, Comp("F1", "fiber", 100, 0, 180)>>,
      <<With(Laser0, [glow |-> 0]),
        With(Comp("L2", "lens", 100, 0, 0), [lensShape |-> "plano-concave"]),
        Comp("D1", "detector", 200, 0, 0)>> }
    \cup
    \* a beam 40, 50 or 60 off the axis of a concave lens: at 50 and 60 it
    \* meets the second surface beyond the critical angle
    { <<With(Comp("L1", "laser", 0, y, 0), [glow |-> 0]),
        With(Comp("L2", "lens", 100, 0, 0), [lensShape |-> "concave"])>> : y \in {40, 50, 60} }
    \cup
    \* a beam 20 or 50 off the axis of a convex lens, whose two faces meet 38
    \* off the axis: at 50 the beam passes the rim and meets the far face first
    { <<With(Comp("L1", "laser", 0, y, 0), [glow |-> 0]), Comp("L2", "lens", 100, 0, 0)>> :
        y \in {20, 50} }

\* a cavity of reflectivity 0.5 between two mirrors: every branch splits in
\* two at every generation, and the number of rays reaches the global cap
SceneCap ==
    { <<Comp("L1", "laser", -100, 0, 0), Comp("M1", "mirror", -200, 0, 0),
        With(Comp("C1", "cavity", 0, 0, 0), [reflectivity |-> ONE \div 2]),
        Comp("M2", "mirror", 200, 0, 0)>> }

Scenes ==
    SceneLone \cup SceneMirror \cup SceneFacingMirrors \cup SceneBeamSplitter
    \cup SceneSplitterChain \cup SceneAOM \cup SceneCavity \cup ScenePolarization
    \cup SceneApertures \cup SceneMirrorAlone \cup SceneDetector \cup SceneIris
    \cup SceneFiber \cup SceneRotated \cup ScenePolBody
    \cup SceneNonFinite \cup SceneNearest \cup ScenePBS

\* ------------------------------------------------------------------------
\* The state machine
\* ------------------------------------------------------------------------
VARIABLES
    scene,           \* the component list the caller holds
    components,      \* the argument of calculateRays
    pc,              \* "idle", "loop", "trace", "post", "returned" or "threw"
    calls,           \* the number of calls that have returned
    queue,           \* calculateRays: the pending rays
    finalRays,       \* calculateRays: the traced rays
    totalHits,       \* calculateRays: the accumulated hits
    totalHitColors,  \* calculateRays: the accumulated colors
    tr,              \* the locals of the running tracePolyline call
    loopLimit,       \* tracePolyline: the bounce budget left
    result,          \* the value returned by the last call
    firstResult,     \* the value returned by the first call
    history,         \* App: the undo history, past, present and future
    edits            \* the names of the history operations done so far

\* the state of calculateRays and of its caller's bookkeeping
tracer == <<components, pc, calls, queue, finalRays, totalHits, totalHitColors,
            tr, loopLimit, result, firstResult>>

\* the state of the editor
app == <<history, edits>>

vars == <<scene, components, pc, calls, queue, finalRays, totalHits, totalHitColors,
          tr, loopLimit, result, firstResult, history, edits>>

NoResult == [rays |-> << >>, hits |-> << >>, hitColors |-> << >>]

NoTrace == [running |-> FALSE, err |-> FALSE]

\* no call of calculateRays has been made on the scene
Idle ==
    /\ components = scene
    /\ pc = "idle"
    /\ calls = 0
    /\ queue = << >>
    /\ finalRays = << >>
    /\ totalHits = << >>
    /\ totalHitColors = << >>
    /\ tr = NoTrace
    /\ loopLimit = 0
    /\ result = NoResult
    /\ firstResult = NoResult

\* the scene is the present of a history with no past and no future
InitOn(S) ==
    /\ scene \in S
    /\ history = [past |-> << >>, present |-> scene, future |-> << >>]
    /\ edits = << >>
    /\ Idle

Init == InitOn(Scenes)

\* the caller passes its component list; calculateRays creates its locals and
\* seeds the queue from every laser (lines 1161-1305)
Call ==
    /\ UNCHANGED app
    /\ pc = "idle"
    /\ components' = Argument(scene)
    /\ IF SeedThrows(components')
       THEN /\ pc' = "threw"
            /\ UNCHANGED <<queue, finalRays, totalHits, totalHitColors>>
       ELSE /\ pc' = "loop"
            /\ queue' = SeedQueue(Lasers(components'), 1)
            /\ finalRays' = << >>
            /\ totalHits' = FreshHits(totalHits)
            /\ totalHitColors' = << >>
    /\ UNCHANGED <<scene, calls, tr, loopLimit, result, firstResult>>

\* the head of the queue loop: leave it when the queue is empty or the cap is
\* reached, else shift the next pending ray and enter tracePolyline
\* (lines 1308-1318)
ProcessQueue ==
    /\ UNCHANGED app
    /\ pc = "loop"
    /\ IF ~QueueLoopContinues(queue) \/ CapReached(finalRays)
       THEN /\ pc' = "post"
            /\ UNCHANGED <<queue, tr, loopLimit>>
       ELSE IF queue = << >>
       THEN UNCHANGED <<pc, queue, tr, loopLimit>>
       ELSE /\ pc' = "trace"
            /\ tr' = TraceEntry(Head(queue))
            /\ loopLimit' = MAX_BOUNCES
            /\ queue' = Tail(queue)
    /\ UNCHANGED <<scene, components, calls, finalRays, totalHits, totalHitColors,
                   result, firstResult>>

\* one iteration of the while loop of tracePolyline (lines 480-1142)
TraceStep ==
    /\ UNCHANGED app
    /\ pc = "trace"
    /\ LoopContinues(tr, loopLimit)
    /\ tr' = TraceIteration(tr, components)
    /\ loopLimit' = Spend(tr, loopLimit)
    /\ pc' = IF tr'.err THEN "threw" ELSE "trace"
    /\ UNCHANGED <<scene, components, calls, queue, finalRays, totalHits, totalHitColors,
                   result, firstResult>>

\* tracePolyline returns; its result is gathered and its children are queued
\* (lines 1144-1158 and 1318-1335)
TraceReturn ==
    /\ UNCHANGED app
    /\ pc = "trace"
    /\ ~LoopContinues(tr, loopLimit)
    /\ finalRays' = Append(finalRays, VisualRay(tr))
    /\ totalHits' = AccumulateHits(totalHits, tr.hits)
    /\ totalHitColors' = AggregateColors(totalHitColors, tr.hitColors)
    /\ queue' = Enqueue(queue, tr.nextRays)
    /\ pc' = "loop"
    /\ UNCHANGED <<scene, components, calls, tr, loopLimit, result, firstResult>>

\* the polarization read-outs are derived and the result is returned
\* (lines 1338-1362)
Return ==
    /\ UNCHANGED app
    /\ pc = "post"
    /\ totalHits' = PostProcess(totalHits, components, 1)
    /\ result' = [rays |-> finalRays, hits |-> totalHits', hitColors |-> totalHitColors]
    /\ firstResult' = IF calls = 0 THEN result' ELSE firstResult
    /\ calls' = calls + 1
    /\ pc' = "returned"
    /\ UNCHANGED <<scene, components, queue, finalRays, totalHitColors, tr, loopLimit>>

\* the caller calls again on its unchanged scene
CallAgain ==
    /\ UNCHANGED app
    /\ pc = "returned"
    /\ calls < MaxCalls
    /\ pc' = "idle"
    /\ UNCHANGED <<scene, components, calls, queue, finalRays, totalHits, totalHitColors,
                   tr, loopLimit, result, firstResult>>

Next == Call \/ ProcessQueue \/ TraceStep \/ TraceReturn \/ Return \/ CallAgain

\* Next seen on pc and loopLimit alone, the caller's next call left out: a
\* step of calculateRays that changes the state is a step of Progress that
\* changes pc or loopLimit (an iteration of tracePolyline leaves pc as it is
\* and spends the budget), and Progress can change them exactly where
\* calculateRays can change the state.
Progress ==
    \/ /\ pc = "idle"
       /\ pc' \in {"loop", "threw"}
       /\ UNCHANGED loopLimit
    \/ /\ pc = "loop"
       /\ ~QueueLoopContinues(queue) \/ CapReached(finalRays)
       /\ pc' = "post"
       /\ UNCHANGED loopLimit
    \/ /\ pc = "loop"
       /\ QueueLoopContinues(queue) /\ ~CapReached(finalRays) /\ queue # << >>
       /\ pc' = "trace"
       /\ loopLimit' = MAX_BOUNCES
    \/ /\ pc = "trace"
       /\ LoopContinues(tr, loopLimit)
       /\ pc' \in {"trace", "threw"}
       /\ loopLimit' = Decrement(loopLimit)
    \/ /\ pc = "trace"
       /\ ~LoopContinues(tr, loopLimit)
       /\ pc' = "loop"
       /\ UNCHANGED loopLimit
    \/ /\ pc = "post"
       /\ pc' = "returned"
       /\ UNCHANGED loopLimit

\* calculateRays is synchronous and single-threaded: a call that can take a
\* step takes it.  The caller is free to call again or not.
Spec == Init /\ [][Next]_vars /\ WF_<<pc, loopLimit>>(Progress)

\* ------------------------------------------------------------------------
\* The queue loop in batches: BatchSize iterations of the loop of
\* calculateRays are one step, each iteration running tracePolyline to its
\* return.  One call is made on every scene, the scene that reaches the cap
\* included.
\* ------------------------------------------------------------------------
BatchSize == 250

RECURSIVE RunTrace(_, _, _)
\* the while loop of tracePolyline run until it is left (lines 480-1142)
RunTrace(t, limit, comps) ==
    IF LoopContinues(t, limit) /\ ~t.err
    THEN RunTrace(TraceIteration(t, comps), Spend(t, limit), comps)
    ELSE t

\* the locals of the queue loop; exited is TRUE once the loop has been left
LoopState(q, rays, hits, colors) ==
    [queue |-> q, finalRays |-> rays, totalHits |-> hits, totalHitColors |-> colors,
     exited |-> FALSE, err |-> FALSE]

\* one iteration of the queue loop (lines 1308-1336)
QueueIteration(st, comps) ==
    IF st.exited \/ st.err THEN st
    ELSE IF ~QueueLoopContinues(st.queue) \/ CapReached(st.finalRays)
    THEN [st EXCEPT !.exited = TRUE]
    ELSE IF st.queue = << >> THEN st
    ELSE Let(RunTrace(TraceEntry(Head(st.queue)), MAX_BOUNCES, comps), LAMBDA t :
             [queue |-> Enqueue(Tail(st.queue), t.nextRays),
              finalRays |-> Append(st.finalRays, VisualRay(t)),
              totalHits |-> AccumulateHits(st.totalHits, t.hits),
              totalHitColors |-> AggregateColors(st.totalHitColors, t.hitColors),
              exited |-> FALSE,
              err |-> t.err])

RECURSIVE Iterate(_, _, _)
\* n iterations of the queue loop: the first half, and from the state it
\* has reached the rest
Iterate(st, comps, n) ==
    IF n <= 1 THEN QueueIteration(st, comps)
    ELSE CHOOSE last \in {Iterate(half, comps, n - n \div 2) :
                              half \in {Iterate(st, comps, n \div 2)}} : TRUE

ProcessBatch ==
    /\ UNCHANGED app
    /\ pc = "loop"
    /\ \E st \in {Iterate(LoopState(queue, finalRays, totalHits, totalHitColors),
                          components, BatchSize)} :
          /\ queue' = st.queue
          /\ finalRays' = st.finalRays
          /\ totalHits' = st.totalHits
          /\ totalHitColors' = st.totalHitColors
          /\ pc' = IF st.err THEN "threw" ELSE IF st.exited THEN "post" ELSE "loop"
    /\ UNCHANGED <<scene, components, calls, tr, loopLimit, result, firstResult>>

InitCap == InitOn(Scenes \cup SceneCap)

NextCap == Call \/ ProcessBatch \/ Return

SpecCap == InitCap /\ [][NextCap]_vars

\* ------------------------------------------------------------------------
\* The undo history of the editor (App.jsx lines 11-16 and 41-105).  Every
\* operation is one functional update of the history state.
\* ------------------------------------------------------------------------
\* Limit history size to 50 steps
HistoryLimit == 50

\* the number of history operations in one session
MaxEdits == 4

\* a stack that is never cut
Keep(newPast) == newPast

\* if (newPast.length > 50) newPast.shift()
Bounded(newPast) == IF Len(newPast) > HistoryLimit THEN Tail(newPast) ELSE newPast

\* an update that keeps the future
KeepsFuture(prev, newComponents, commit) ==
    [past |-> IF commit THEN Bounded(Append(prev.past, prev.present)) ELSE prev.past,
     present |-> newComponents,
     future |-> prev.future]

updateComponents(prev, newComponents, commit) ==
    IF commit
    THEN [past |-> Bounded(Append(prev.past, prev.present)),
          present |-> newComponents,
          future |-> << >>]
    ELSE [prev EXCEPT !.present = newComponents]

\* a checkpoint that keeps the future
Bookmark(prev) == [prev EXCEPT !.past = Bounded(Append(prev.past, prev.present))]

saveCheckpoint(prev) ==
    [prev EXCEPT !.past = Bounded(Append(prev.past, prev.present)),
                 !.future = << >>]

undo(prev) ==
    IF Len(prev.past) = 0 THEN prev
    ELSE [past |-> SubSeq(prev.past, 1, Len(prev.past) - 1),
          present |-> prev.past[Len(prev.past)],
          future |-> <<prev.present>> \o prev.future]

\* a redo that does not save the present
Replay(prev) ==
    IF Len(prev.future) = 0 THEN prev
    ELSE [past |-> prev.past, present |-> Head(prev.future), future |-> Tail(prev.future)]

redo(prev) ==
    IF Len(prev.future) = 0 THEN prev
    ELSE [past |-> Append(prev.past, prev.present),
          present |-> Head(prev.future),
          future |-> Tail(prev.future)]

\* useState({ past: [], present: [], future: [] })
EmptyHistory == [past |-> << >>, present |-> << >>, future |-> << >>]

\* the table after the n-th edit: one laser, dragged to x = n
Snapshot(n) == <<Comp("L1", "laser", n, 0, 0)>>

RECURSIVE CommitFrom(_, _, _)
\* the history h after the committed edits lo to hi: the first half of them,
\* and from the history they lead to the rest
CommitFrom(h, lo, hi) ==
    IF lo > hi THEN h
    ELSE IF lo = hi THEN updateComponents(h, Snapshot(lo), TRUE)
    ELSE CHOOSE last \in {CommitFrom(half, (lo + hi) \div 2 + 1, hi) :
                              half \in {CommitFrom(h, lo, (lo + hi) \div 2)}} : TRUE

\* the history after n committed edits of a new session
Committed(n) == CommitFrom(EmptyHistory, 1, n)

\* the histories a session is taken up from: new, after one edit, and with
\* the past one short of the limit, at the limit, and past it
HistoryStarts ==
    { Committed(n) : n \in {0, 1, HistoryLimit - 1, HistoryLimit, HistoryLimit + 1} }

\* the component lists an edit can produce: a mirror added, or the table
\* cleared
NewComponents(present) ==
    { Append(present, Comp("M1", "mirror", 100, 0, 0)), << >> }

InitHistory ==
    /\ history \in HistoryStarts
    /\ edits = << >>
    /\ scene = history.present
    /\ Idle

\* updateComponents(newComponents, commit) (lines 46-65)
UpdateComponents ==
    /\ Len(edits) < MaxEdits
    /\ \E newComponents \in NewComponents(history.present), commit \in BOOLEAN :
          /\ history' = updateComponents(history, newComponents, commit)
          /\ edits' = Append(edits, IF commit THEN "update" ELSE "transient")
    /\ scene' = history'.present
    /\ UNCHANGED tracer

\* saveCheckpoint() (lines 69-79)
SaveCheckpoint ==
    /\ Len(edits) < MaxEdits
    /\ history' = saveCheckpoint(history)
    /\ edits' = Append(edits, "checkpoint")
    /\ scene' = history'.present
    /\ UNCHANGED tracer

\* undo() (lines 81-92)
Undo ==
    /\ Len(edits) < MaxEdits
    /\ history' = undo(history)
    /\ edits' = Append(edits, "undo")
    /\ scene' = history'.present
    /\ UNCHANGED tracer

\* redo() (lines 94-105)
Redo ==
    /\ Len(edits) < MaxEdits
    /\ history' = redo(history)
    /\ edits' = Append(edits, "redo")
    /\ scene' = history'.present
    /\ UNCHANGED tracer

NextHistory == UpdateComponents \/ SaveCheckpoint \/ Undo \/ Redo

SpecHistory == InitHistory /\ [][NextHistory]_vars

\* ------------------------------------------------------------------------
\* Properties
\* ------------------------------------------------------------------------
\* the running branch has just ended at a hit on a component of this kind
AtHit(type) == pc = "trace" /\ ~tr.running /\ tr.closestHit.type = type

RECURSIVE SumIntensity(_, _)
\* the sum of the intensities of the rays from the i-th on
SumIntensity(rays, i) ==
    IF i > Len(rays) THEN 0 ELSE rays[i].intensity + SumIntensity(rays, i + 1)

\* C1: every call of calculateRays terminates: once called, the queue loop is
\* eventually left, with the work queue empty or the global cap reached, and
\* a result is returned.
C1_Terminates ==
    (pc = "idle") ~>
        (pc = "returned" /\ (queue = << >> \/ Len(finalRays) >= MAX_TOTAL_RAYS))

\* a call on the default cavity (reflectivity 0.95) has returned with an
\* empty queue after tracing the rays trapped between its mirrors
C1_Witness ==
    /\ pc = "returned"
    /\ scene \in SceneCavity
    /\ queue = << >>
    /\ Len(result.rays) > 20

\* C2: the number of completed traced rays never exceeds MAX_TOTAL_RAYS; once
\* that many are completed no pending ray is dequeued and no ray is added,
\* the queue loop is left only with the queue empty or the cap reached, and
\* the call returns without an error the rays and hits gathered so far.
C2_GlobalCap ==
    /\ [](Len(finalRays) <= MAX_TOTAL_RAYS)
    /\ [][Len(finalRays) >= MAX_TOTAL_RAYS => UNCHANGED <<queue, finalRays>>]_vars
    /\ [](pc \in {"post", "returned"} =>
            queue = << >> \/ Len(finalRays) = MAX_TOTAL_RAYS)
    /\ [](pc # "threw")
    /\ [](pc = "returned" =>
            /\ result.rays = finalRays
            /\ result.hits = totalHits
            /\ result.hitColors = totalHitColors)

\* a call has returned exactly MAX_TOTAL_RAYS rays while pending rays were
\* still queued
C2_Witness ==
    /\ pc = "returned"
    /\ Len(result.rays) = MAX_TOTAL_RAYS
    /\ queue # << >>

\* C3: every step of a branch spends exactly one unit of its budget, whatever
\* the step hits (the abort of a branch whose coordinates are NaN is no step:
\* it ends the branch before the budget is touched); the budget stays within
\* 0..MAX_BOUNCES, the path holds one point more than the steps made, and no
\* traced ray has more than MAX_BOUNCES + 1 points.
C3_BounceBudget ==
    /\ [][pc = "trace" /\ pc' = "trace" /\ ~HasNaN(tr) => loopLimit' = loopLimit - 1]_vars
    /\ [](pc = "trace" =>
            /\ loopLimit \in 0..MAX_BOUNCES
            /\ Len(tr.path) = 1 + MAX_BOUNCES - loopLimit)
    /\ [](\A i \in 1..Len(finalRays) : Len(finalRays[i].path) <= MAX_BOUNCES + 1)

\* a branch caught between two mirrors has spent its whole budget
C3_Witness ==
    /\ pc = "trace"
    /\ loopLimit = 0
    /\ tr.closestHit.type = "mirror"
    /\ Len(tr.path) = MAX_BOUNCES + 1

\* C4: every pending ray in the work queue has an intensity strictly above
\* MIN_INTENSITY.
C4_IntensityFloor ==
    \A i \in 1..Len(queue) : queue[i].intensity > MIN_INTENSITY

\* a wave plate has queued its child (the only pending rays without the
\* isGaussian flag) and the child is not above the floor
C4_Witness ==
    \E i \in 1..Len(queue) :
        queue[i].isGaussian = "undefined" /\ queue[i].intensity <= MIN_INTENSITY

\* C5, as stated: at every hit on a cavity mirror the intensities of the
\* children spawned there sum to the intensity of the parent (up to one unit
\* of rounding).
C5_ChildrenSumToParent ==
    AtHit("cavity") =>
        Abs(SumIntensity(tr.nextRays, 1) - tr.pending.intensity) <= 1

\* C5, amended: at a hit on a cavity mirror the children are the reflected
\* share I * R and the transmitted share I * (1 - R), each spawned only if it
\* is above MIN_INTENSITY; when both are spawned they sum to the parent (up to
\* one unit of rounding), else the children carry at most the parent's
\* intensity.
C5_CavitySplit ==
    AtHit("cavity") =>
        LET I == tr.pending.intensity
            R == ParamOr(tr.closestHit.component, "reflectivity", (95 * ONE) \div 100)
            shares == <<MulDiv(I, R, ONE), MulDiv(I, ONE - R, ONE)>>
            above == SelectSeq(shares, LAMBDA v : v > MIN_INTENSITY)
            kids == tr.nextRays
        IN  /\ Len(kids) = Len(above)
            /\ \A i \in 1..Len(kids) : kids[i].intensity = above[i]
            /\ Len(kids) = 2 => Abs(SumIntensity(kids, 1) - I) <= 1
            /\ SumIntensity(kids, 1) <= I + 1

\* a cavity mirror has spawned its reflected child alone, the transmitted
\* share being below the floor
C5_Witness ==
    /\ AtHit("cavity")
    /\ Len(tr.nextRays) = 1
    /\ tr.nextRays[1].intensity < tr.pending.intensity

\* C6: a second call of calculateRays on the unchanged scene returns what the
\* first call returned: the same rays in the same order, the same hits and
\* the same hit colors.
C6_Deterministic ==
    (pc = "returned" /\ calls >= 2) => result = firstResult

\* a second call has returned several rays and a detector reading
C6_Witness ==
    /\ pc = "returned"
    /\ calls = 2
    /\ Len(result.rays) > 1
    /\ result.hits # << >>

\* C7: the component list passed to calculateRays is at every moment what the
\* caller passed: the same components with the same id, type, position,
\* rotation and params.
C7_InputUnmodified == components = scene

\* a call on a scene of several components, one of them with params, has
\* returned
C7_Witness ==
    /\ pc = "returned"
    /\ Len(components) > 2
    /\ \E i \in 1..Len(components) : "params" \in DOMAIN components[i]

\* C8: calculateRays never throws, and what it returns has a rays list, a
\* hits mapping and a hitColors mapping.
C8_NeverThrows ==
    /\ pc # "threw"
    /\ pc = "returned" => DOMAIN result = {"rays", "hits", "hitColors"}

\* a call on a scene holding a component without params and a component
\* whose params lack what the engine reads from it has returned
C8_Witness ==
    /\ pc = "returned"
    /\ \E i \in 1..Len(components) : ~("params" \in DOMAIN components[i])
    /\ \E i \in 1..Len(components) :
          /\ components[i].type = "laser"
          /\ "params" \in DOMAIN components[i]
          /\ ~HasParam(components[i], "brightness")
    /\ result.rays # << >>

\* C9, as stated: a hit on a beam splitter of transmission r ends the parent
\* at the hit point and spawns two children, one reflected specularly with
\* intensity I * (1 - r) and one transmitted along the unchanged direction
\* with intensity I * r, both with the parent's polarization and Gaussian
\* state.
C9_TwoChildren ==
    AtHit("beamsplitter") =>
        LET I == tr.pending.intensity
            r == ParamOr(tr.closestHit.component, "transmission", ONE \div 2)
            kids == tr.nextRays
        IN  /\ tr.path[Len(tr.path)] = tr.closestHit.point
            /\ Len(kids) = 2
            /\ kids[1].intensity = MulDiv(I, ONE - r, ONE)
            /\ kids[1].dir = normalize(Reflect(tr.currentDir, tr.closestHit.normal))
            /\ kids[2].intensity = MulDiv(I, r, ONE)
            /\ kids[2].dir = tr.currentDir
            /\ \A i \in 1..2 : /\ kids[i].polarization = tr.pending.polarization
                               /\ kids[i].gaussian = tr.currentGaussian

\* C9, amended: a hit on a beam splitter of transmission r ends the parent at
\* the hit point; the reflected child of intensity I * (1 - r) and the
\* transmitted child of intensity I * r are each spawned only if that
\* intensity is above MIN_INTENSITY, the reflected one first; a child has the
\* parent's polarization and Gaussian state, and with r = 0.5 two children
\* have the same intensity.
C9_BeamSplitter ==
    AtHit("beamsplitter") =>
        LET I == tr.pending.intensity
            r == ParamOr(tr.closestHit.component, "transmission", ONE \div 2)
            reflected == [intensity |-> MulDiv(I, ONE - r, ONE),
                          dir |-> normalize(Reflect(tr.currentDir, tr.closestHit.normal))]
            transmitted == [intensity |-> MulDiv(I, r, ONE), dir |-> tr.currentDir]
            above == SelectSeq(<<reflected, transmitted>>,
                               LAMBDA c : c.intensity > MIN_INTENSITY)
            kids == tr.nextRays
        IN  /\ tr.path[Len(tr.path)] = tr.closestHit.point
            /\ Len(kids) = Len(above)
            /\ \A i \in 1..Len(kids) :
                  /\ kids[i].intensity = above[i].intensity
                  /\ kids[i].dir = above[i].dir
                  /\ kids[i].polarization = tr.pending.polarization
                  /\ kids[i].gaussian = tr.currentGaussian
            /\ (r = ONE \div 2 /\ Len(kids) = 2) => kids[1].intensity = kids[2].intensity

\* a beam splitter of transmission 1 has spawned the transmitted child alone,
\* with the whole intensity of the parent
C9_Witness ==
    /\ AtHit("beamsplitter")
    /\ Len(tr.nextRays) = 1
    /\ tr.nextRays[1].dir = tr.currentDir
    /\ tr.nextRays[1].intensity = tr.pending.intensity

MirrorStep ==
    /\ pc = "trace" /\ pc' = "trace"
    /\ loopLimit' # loopLimit
    /\ tr'.closestHit.type = "mirror"

\* x1 * y2 - y1 * x2, the component of v1 along the mirror of normal v2
Cross(v1, v2) == MulDiv(v1.x, v2.y, ONE) - MulDiv(v1.y, v2.x, ONE)

\* C11: a mirror hit turns the direction D of the branch into D - 2 (D . N) N
\* (the component along the normal N is reversed, the component along the
\* mirror is kept, the length stays 1), the branch goes on: its path gains the
\* hit point, no child is spawned, its intensity is unchanged; and a mirror
\* rotated 135 degrees turns the beam of a laser at rotation 0 from +x to +y,
\* the path of the center ray holding exactly 3 points when nothing else is
\* hit.
C11_MirrorReflects ==
    /\ [][MirrorStep =>
            LET D == tr.currentDir
                N == tr'.closestHit.normal
                R == tr'.currentDir
            IN  /\ Abs(R.x - (D.x - MulDiv(N.x, 2 * dot(D, N, ONE), ONE))) <= 2
                /\ Abs(R.y - (D.y - MulDiv(N.y, 2 * dot(D, N, ONE), ONE))) <= 2
                /\ Abs(dot(R, N, ONE) + dot(D, N, ONE)) <= 3
                /\ Abs(Cross(R, N) - Cross(D, N)) <= 3
                /\ Abs(mag(R) - ONE) <= 2
                /\ tr'.running
                /\ tr'.path = Append(tr.path, tr'.closestHit.point)
                /\ tr'.nextRays = << >>
                /\ tr'.currentIntensity = tr.currentIntensity
                /\ tr'.currentIntensity = tr.pending.intensity]_vars
    /\ [](pc = "returned" /\ scene \in SceneMirrorAlone =>
            LET path == result.rays[1].path
            IN  /\ Len(path) = 3
                /\ Abs(path[2].x - 200 * LEN) <= LEN \div 2
                /\ path[3].y > path[2].y + 1000 * LEN
                /\ Abs(path[3].x - path[2].x) < LEN)

\* the center ray of the laser aimed at the lone mirror has been returned: it
\* left along +x, met the mirror and ended far above it
C11_Witness ==
    /\ pc = "returned"
    /\ scene \in SceneMirrorAlone
    /\ result.rays[1].direction = Vec(ONE, 0)
    /\ Len(result.rays[1].path) = 3
    /\ result.rays[1].path[3].y > 1000 * LEN

\* the traced ray ends on the face of the component: its last point lies on
\* the segment of the given half width through the component's position
EndsOn(ray, comp, halfWidth) ==
    LET v == sub(ray.path[Len(ray.path)], comp.position)
        n == Vec(Cos(comp.rotation), Sin(comp.rotation))
    IN  /\ Abs(dot(v, n, ONE)) <= 2
        /\ Abs(Cross(v, n)) <= halfWidth + 2

RECURSIVE SumEndedOn(_, _, _, _)
\* the sum of the intensities of the rays, from the i-th on, that end on the
\* component
SumEndedOn(rays, comp, halfWidth, i) ==
    IF i > Len(rays) THEN 0
    ELSE (IF EndsOn(rays[i], comp, halfWidth) THEN rays[i].intensity ELSE 0)
         + SumEndedOn(rays, comp, halfWidth, i + 1)

\* the number of seed rays of a laser's profile: the center ray and two side
\* rays, or the numRays rays of the gaussian profile
SeedRays(laser) ==
    IF ParamOr(laser, "profile", "simple") = "gaussian" THEN numRays ELSE 3

IrisCrossed ==
    /\ pc = "returned"
    /\ scene \in SceneIris
    /\ Len(result.rays) = 1

\* the ray was blocked by the iris: it ends where it crosses the plane, and
\* no power was accumulated
IrisBlocked ==
    /\ result.rays[1].path = <<components[1].position,
                               Vec(components[2].position.x, components[1].position.y)>>
    /\ result.hits = << >>

\* the ray was left untouched by the iris: its path holds no point on the
\* plane, and it ends on the detector behind, which reports its power
IrisPassed ==
    /\ Len(result.rays[1].path) = 2
    /\ EndsOn(result.rays[1], components[3], 40 * LEN)
    /\ result.hits[Key("D1", "")] = result.rays[1].intensity

\* C13, as stated: an iris of aperture diameter d blocks every ray that
\* crosses its plane farther than d / 2 from its center (the ray ends at the
\* crossing with no child and no accumulated power) and leaves untouched
\* every ray that crosses within d / 2, which goes on to the next element.
C13_IrisBlocksOutside ==
    IrisCrossed =>
        LET d == ParamOr(components[2], "aperture", 40 * LEN)
            dist == Abs(components[1].position.y - components[2].position.y)
        IN  IF 2 * dist > d THEN IrisBlocked ELSE IrisPassed

\* C13, amended: an iris is a stop 64 wide with a hole of diameter
\* min(d, 64).  A ray that meets the stop farther than min(d, 64) / 2 from the
\* center is blocked: it ends at the hit point with no child and no
\* accumulated power.  A ray that crosses within the hole, or that crosses
\* the plane more than 32 from the center, is untouched and goes on to the
\* next element.
C13_IrisStop ==
    /\ IrisCrossed =>
          LET d == Min2(ParamOr(components[2], "aperture", 40 * LEN), 64 * LEN)
              dist == Abs(components[1].position.y - components[2].position.y)
          IN  IF dist < 32 * LEN /\ 2 * dist > d THEN IrisBlocked ELSE IrisPassed
    /\ (AtHit("blocker") /\ tr.closestHit.component.type = "iris") =>
          /\ tr.nextRays = << >>
          /\ tr.hits = << >>
          /\ tr.path[Len(tr.path)] = tr.closestHit.point
          /\ 2 * mag(sub(tr.closestHit.point, tr.closestHit.component.position))
                > Min2(ParamOr(tr.closestHit.component, "aperture", 40 * LEN), 64 * LEN)

\* a ray crossing the plane of an iris of aperture 10 at 6 from the center
\* has ended there, and nothing reached the detector behind
C13_Witness ==
    /\ IrisCrossed
    /\ ParamOr(components[2], "aperture", 40 * LEN) = 10 * LEN
    /\ components[1].position.y = 6 * LEN
    /\ IrisBlocked

\* the running branch has met a fiber coupler in its last step, on its core
\* or elsewhere
AtFiber ==
    /\ pc = "trace"
    /\ tr.closestHit.type \in {"fiber", "blocker"}
    /\ tr.closestHit.component.type = "fiber"

\* C14: a branch that hits a fiber coupler ends there without children.
\* Power is accumulated to the fiber only when the hit is on the front face,
\* within the core radius of the face's center, at an incidence angle theta of
\* at most the acceptance half-angle A; it is then the intensity times
\* exp(-theta^2 / (2 sigma^2)) with sigma = A / 2.355: about the whole
\* intensity at theta = 0, about half of it at theta = A / 2.  A hit outside
\* the core, on the back face or with theta > A accumulates nothing.
C14_FiberCoupling ==
    AtFiber =>
        LET fiber == tr.closestHit.component
            I == tr.pending.intensity
            N == Vec(Cos(fiber.rotation + 180 * DEG), Sin(fiber.rotation + 180 * DEG))
            cosTheta == -dot(tr.currentDir, N, ONE)
            theta == AcosDeg(Max2(-ONE, Min2(ONE, cosTheta)))
            A == ParamOr(fiber, "acceptanceAngle", 15 * DEG)
            sigma == DivScale(A, 2355, 1000)
            coreRadius == ParamOr(fiber, "coreSize", 12 * LEN) \div 2
            faceCenter == add(fiber.position, mul(N, 16 * LEN, ONE))
            inCore == mag(sub(tr.closestHit.point, faceCenter)) <= coreRadius
            amount == MulDiv(I, Exp(-DivScale(theta * theta, 2 * sigma * sigma, ONE)), ONE)
        IN  /\ ~tr.running
            /\ tr.nextRays = << >>
            /\ tr.path[Len(tr.path)] = tr.closestHit.point
            /\ IF cosTheta > 0 /\ inCore /\ theta <= A
               THEN /\ DOMAIN tr.hits = {Key(fiber.id, "")}
                    /\ Abs(tr.hits[Key(fiber.id, "")] - amount) <= I \div 1000
                    /\ theta = 0 => Abs(tr.hits[Key(fiber.id, "")] - I) <= I \div 100
                    /\ 2 * theta = A =>
                          /\ 2 * tr.hits[Key(fiber.id, "")] > I - I \div 50
                          /\ 2 * tr.hits[Key(fiber.id, "")] < I + I \div 50
               ELSE tr.hits = << >>

\* a coupler of acceptance 30 met at 15 degrees within its core has
\* accumulated about half of the branch's intensity
C14_Witness ==
    /\ AtFiber
    /\ tr.closestHit.type = "fiber"
    /\ tr.closestHit.component.rotation = 15 * DEG
    /\ 10 * tr.hits[Key("fib1", "")] > 4 * tr.pending.intensity
    /\ 10 * tr.hits[Key("fib1", "")] < 6 * tr.pending.intensity

\* cos(psi - phi) for the linear polarization jv at angle psi and the axis at
\* angle phi: the projection of jv on the axis
AlongAxis(jv, phi) == MulDiv(jv.ex.re, Cos(phi), ONE) + MulDiv(jv.ey.re, Sin(phi), ONE)

\* the Jones vector is a linear polarization along the axis at angle phi, of
\* unit magnitude
PolarizedAlong(jv, phi) ==
    /\ Abs(jv.ex.im) <= 2 /\ Abs(jv.ey.im) <= 2
    /\ Abs(MulDiv(jv.ex.re, Sin(phi), ONE) - MulDiv(jv.ey.re, Cos(phi), ONE)) <= 5
    /\ Abs(getIntensity(jv) - ONE) <= 20

\* the intensity I cos^2(psi - phi) that Malus's law gives the branch at the
\* polarizer it has hit
MalusIntensity ==
    MulDiv(tr.pending.intensity,
           Square(AlongAxis(tr.pending.polarization,
                            ParamOr(tr.closestHit.component, "polarizerAxis", 0))), ONE)

\* the difference psi - phi, in degrees, for a seed ray of a laser at
\* rotation 0 at the polarizer it has hit
SeedAngle ==
    Abs(ParamOr(components[1], "polarization", 0)
            - ParamOr(tr.closestHit.component, "polarizerAxis", 0)) \div DEG

\* C15, as stated: a polarizer of axis phi hit by a branch of intensity I,
\* linearly polarized at angle psi, ends the branch and spawns a single child
\* of intensity I cos^2(psi - phi) polarized along the axis: I at a difference
\* of 0 degrees, I / 2 at 45 degrees; at 90 degrees, where that intensity is
\* 0, no child is spawned.
C15_Malus ==
    AtHit("polarizer") =>
        LET I == tr.pending.intensity
            phi == ParamOr(tr.closestHit.component, "polarizerAxis", 0)
            kids == tr.nextRays
        IN  /\ IF MalusIntensity > 0
               THEN /\ Len(kids) = 1
                    /\ Abs(kids[1].intensity - MalusIntensity) <= 2 + I \div 1000
                    /\ PolarizedAlong(kids[1].polarization, phi)
               ELSE kids = << >>
            /\ (tr.pending.bounces = 0 /\ components[1].rotation = 0) =>
                  /\ SeedAngle = 0 => Len(kids) = 1 /\ Abs(kids[1].intensity - I) <= I \div 1000
                  /\ SeedAngle = 45 =>
                        Len(kids) = 1 /\ Abs(2 * kids[1].intensity - I) <= I \div 500
                  /\ SeedAngle = 90 => kids = << >>

\* a polarizer whose axis is at the same angle, 45 degrees, as the polarization
\* of the branch of intensity 1 that has hit it, has spawned no child
C15_Witness ==
    /\ AtHit("polarizer")
    /\ tr.pending.bounces = 0
    /\ ParamOr(components[1], "polarization", 0) = 45 * DEG
    /\ ParamOr(tr.closestHit.component, "polarizerAxis", 0) = 45 * DEG
    /\ tr.pending.intensity = PW
    /\ tr.nextRays = << >>

\* C16: a scene holding one laser of power 1, no glow parameter given, and
\* nothing else yields exactly 3 traced rays; the first returned ray is the
\* center ray: it has intensity 1, direction (1, 0) at rotation 0, and a path
\* of more than one point.
C16_LoneLaser ==
    (pc = "returned" /\ components \in SceneLone) =>
        /\ Len(result.rays) = 3
        /\ result.rays[1].start = components[1].position
        /\ result.rays[1].intensity = PW
        /\ result.rays[1].direction = Vec(ONE, 0)
        /\ Len(result.rays[1].path) > 1

\* the laser of the tests, alone, has yielded 3 rays, and the center ray, a
\* segment along (1, 0), has intensity 0.6
C16_Witness ==
    /\ pc = "returned"
    /\ components = <<TestLaser>>
    /\ Len(result.rays) = 3
    /\ result.rays[1].start = components[1].position
    /\ result.rays[1].direction = Vec(ONE, 0)
    /\ Len(result.rays[1].path) = 2
    /\ 10 * result.rays[1].intensity = 6 * PW

\* the pending ray is a seed ray of a laser at rotation theta (degrees times
\* DEG), that laser being the only one of the scene
SeedOf(ray, theta) ==
    /\ ray.bounces = 0
    /\ Len(Lasers(components)) = 1
    /\ Lasers(components)[1].rotation = theta

\* C17: every seed ray of a source of rotation theta has the direction
\* (cos theta, sin theta): exactly (1, 0), (0, 1), (-1, 0), (0, -1) at
\* theta = 0, 90, 180, 270, and (cos theta, sin theta) within tolerance at
\* every other theta, non-integer rotations close to a cardinal angle and
\* negative rotations included.
C17_SeedDirection ==
    pc = "loop" =>
        \A i \in 1..Len(queue) : \A theta \in -360 * DEG .. 360 * DEG :
            SeedOf(queue[i], theta) =>
                /\ theta = 0 => queue[i].dir = Vec(ONE, 0)
                /\ theta = 90 * DEG => queue[i].dir = Vec(0, ONE)
                /\ theta = 180 * DEG => queue[i].dir = Vec(-ONE, 0)
                /\ theta = 270 * DEG => queue[i].dir = Vec(0, -ONE)
                /\ Abs(queue[i].dir.x - Cos(theta)) <= 2
                /\ Abs(queue[i].dir.y - Sin(theta)) <= 2

\* the three seed rays of a laser rotated by 0.4 degrees are queued with the
\* direction (1, 0), while (cos theta, sin theta) is (0.99998, 0.00698)
C17_Witness ==
    /\ pc = "loop"
    /\ Len(queue) = 3
    /\ \A i \in 1..3 : SeedOf(queue[i], 4) /\ queue[i].dir = Vec(ONE, 0)
    /\ Sin(4) > 50

\* the distance between two orientations, angles modulo 180 degrees
OrientationGap(a, b) ==
    LET d == (a - b) % (180 * DEG)
    IN  Min2(d, 180 * DEG - d)

\* the scene is a laser and a polarization detector, nothing else
LaserAndPolDetector ==
    /\ Len(components) = 2
    /\ components[1].type = "laser"
    /\ components[2].type = "poldetector"

C19_GaussianPerSegment ==
    pc = "returned" =>
        \A i \in 1..Len(result.rays) :
            Len(result.rays[i].gaussianParamsList) = Len(result.rays[i].path) - 1

\* a call has returned a ray of two or more segments, a point of its path on
\* a mirror, with an empty list of Gaussian parameters
C19_Witness ==
    /\ pc = "returned"
    /\ \E i \in 1..Len(result.rays) :
          /\ Len(result.rays[i].path) >= 3
          /\ result.rays[i].gaussianParamsList = << >>

RECURSIVE SumStokesEndedOn(_, _, _, _)
\* the sum, over the rays from the i-th on that end on the component, of the
\* ray's intensity times the Stokes component (1, 2 or 3) of its Jones vector
SumStokesEndedOn(rays, comp, k, i) ==
    IF i > Len(rays) THEN 0
    ELSE (IF EndsOn(rays[i], comp, 40 * LEN)
          THEN LET stokes == getStokes(rays[i].polarization)
                   sk == IF k = 1 THEN stokes.s1 ELSE IF k = 2 THEN stokes.s2 ELSE stokes.s3
               IN  MulDiv(rays[i].intensity, sk, ONE)
          ELSE 0)
         + SumStokesEndedOn(rays, comp, k, i + 1)

\* the Stokes component stored for the detector, as a power
StoredStokes(id, suffix) == MulDiv(Get(result.hits, Key(id, suffix)), PW, ONE)

\* the scene is a laser, a quarter-wave plate at 45 degrees and a polarization
\* detector: one fully circular branch ends on the detector
OneCircularBranch ==
    /\ Len(components) = 3
    /\ components[2].type = "qwp"
    /\ ParamOr(components[2], "fastAxis", 0) = 45 * DEG
    /\ components[3].type = "poldetector"
    /\ ParamOr(components[1], "glow", 1) = 0
    /\ ParamOr(components[1], "polarization", 0) = 0

\* C20: the Stokes components accumulated for a polarization detector are
\* intensity-weighted: after the computation the stored S1, S2, S3 each equal
\* the sum, over the branches that ended on the detector, of the branch's
\* intensity times the Stokes component of its unit Jones vector; S3 / S0 for
\* a single fully circular branch is 1 or -1 whatever its power.
C20_StokesWeighted ==
    pc = "returned" =>
        /\ \A j \in 1..Len(components) :
              components[j].type = "poldetector" =>
                LET id == components[j].id
                    slack == 5 * (PW \div ONE) * (1 + Len(result.rays))
                IN  /\ Abs(StoredStokes(id, "_s1")
                             - SumStokesEndedOn(result.rays, components[j], 1, 1)) <= slack
                    /\ Abs(StoredStokes(id, "_s2")
                             - SumStokesEndedOn(result.rays, components[j], 2, 1)) <= slack
                    /\ Abs(StoredStokes(id, "_s3")
                             - SumStokesEndedOn(result.rays, components[j], 3, 1)) <= slack
        /\ (OneCircularBranch /\ Get(result.hits, Key(components[3].id, "")) > 0) =>
              LET id == components[3].id
              IN  Abs(Abs(StoredStokes(id, "_s3")) - Get(result.hits, Key(id, "")))
                      <= Get(result.hits, Key(id, "")) \div 100

\* one fully circular branch of power 2 has ended on the detector: the stored
\* S0 is 2, the stored S3 has magnitude 1, and the reported ellipticity is
\* 15 degrees, not 45
C20_Witness ==
    /\ pc = "returned"
    /\ OneCircularBranch
    /\ Get(result.hits, Key("PD1", "")) = 2 * PW
    /\ Abs(Abs(Get(result.hits, Key("PD1", "_s3"))) - ONE) <= 20
    /\ Abs(Abs(Get(result.hits, Key("PD1", "_ellipticity"))) - 15 * DEG) <= 2

\* a coordinate of the vector is NaN or infinite
NonFinite(v) == v.x \in {NaN, Infinity} \/ v.y \in {NaN, Infinity}

\* a step of tracePolyline taken by a branch whose origin or direction is not
\* finite
DegenerateStep ==
    /\ pc = "trace" /\ tr.running /\ loopLimit > 0
    /\ NonFinite(tr.currentOrigin) \/ NonFinite(tr.currentDir)
    /\ tr' # tr

\* C21: a branch whose origin or direction is non-finite (NaN or infinite in
\* a coordinate) at the start of a step is aborted at once without an error:
\* no point is appended to its path, and it produces no child ray and no hit.
C21_DegenerateAborted ==
    [][DegenerateStep =>
          /\ ~tr'.running
          /\ ~tr'.err /\ pc' = "trace"
          /\ tr'.path = tr.path
          /\ tr'.nextRays = << >>
          /\ tr'.hits = << >>]_vars

\* the branch seeded at x = Infinity has ended with a second point on its path
C21_Witness ==
    /\ pc = "trace"
    /\ ~tr.running
    /\ tr.pending.origin.x = Infinity
    /\ ~tr.err
    /\ Len(tr.path) = 2
    /\ tr.path[2].x = Infinity

\* the nearest accepted hit of one element alone, for the ray from o along d
OwnHit(comp, o, d) == findClosestHit(<<comp>>, o, d).closestHit

\* the second crossing of a circle by the ray from o along d, beyond the
\* first: where the ray meets the circle again
SecondCrossing(o, d, sf) ==
    LET first == intersectRayCircle(o, d, sf.center, sf.radius)
    IN  IF ~first.hit THEN NoHit
        ELSE LET beyond == add(first.point, mul(d, 2 * EPSILON, ONE))
                 second == intersectRayCircle(beyond, d, sf.center, sf.radius)
             IN  IF second.hit
                 THEN Hit(first.t + 2 * EPSILON + second.t, second.point, second.normal)
                 ELSE NoHit

\* the ray from o along d meets a circular surface of the lens a second time,
\* less than 90 from the lens's center, at a distance less than t
LensSurfaceNearer(lens, o, d, t) ==
    LET surfaces == getLensBoundaries(lens)
    IN  \E k \in 1..Len(surfaces) :
            /\ surfaces[k].type = "circle"
            /\ LET far == SecondCrossing(o, d, surfaces[k])
               IN  /\ far.hit
                   /\ mag(sub(far.point, lens.position)) < 90 * LEN
                   /\ far.t < t

\* a step of tracePolyline that runs the search for the closest hit
SearchStep ==
    /\ pc = "trace" /\ tr.running /\ loopLimit > 0
    /\ ~HasNaN(tr)
    /\ loopLimit' # loopLimit

\* C22: in every step the interaction applied is the accepted hit of smallest
\* distance t, t > EPSILON, over all the boundaries of all the elements of
\* the scene; among elements at that distance it is the hit of the first in
\* iteration order; a hit of an iris inside the hole of the aperture and a
\* hit of a lens surface 90 or more from the lens's center are never the
\* candidate, and never hide a farther element.
C22_NearestHit ==
    [][SearchStep =>
          LET o == tr.currentOrigin
              d == tr.currentDir
              found == tr'.closestHit
              n == Len(components)
          IN  /\ IF found.type = "none"
                 THEN \A j \in 1..n : OwnHit(components[j], o, d).type = "none"
                 ELSE /\ found.t > EPSILON
                      /\ \E i \in 1..n :
                            /\ OwnHit(components[i], o, d) = found
                            /\ \A j \in 1..n :
                                  LET own == OwnHit(components[j], o, d)
                                  IN  own.type # "none" =>
                                          IF j < i THEN own.t > found.t ELSE own.t >= found.t
                      /\ found.type = "lens" =>
                            mag(sub(found.point, found.component.position)) < 90 * LEN
                      /\ found.component.type \in {"iris", "blocker"} =>
                            2 * mag(sub(found.point, found.component.position))
                                > Min2(ParamOr(found.component, "aperture", 40 * LEN), 64 * LEN)
              /\ \A j \in 1..n :
                    components[j].type = "lens" =>
                        ~LensSurfaceNearer(components[j], o, d,
                                           IF found.type = "none" THEN Infinity ELSE found.t)]_vars

\* the ray aimed at the center of a concave lens 300 away has met, as its
\* first hit, the lens's second surface at 307.5: its first surface, at
\* 292.5, was not a candidate
C22_Witness ==
    /\ pc = "trace"
    /\ Len(components) = 2
    /\ components[2].type = "lens"
    /\ StringOr(components[2], "lensShape", "convex") = "concave"
    /\ components[2].position.x = 300 * LEN
    /\ tr.pending.bounces = 0
    /\ Len(tr.path) = 2
    /\ tr.closestHit.type = "lens"
    /\ Abs(tr.closestHit.t - 3075 * (LEN \div 10)) <= 2
    /\ LensSurfaceNearer(components[2], tr.pending.origin, tr.pending.dir, 293 * LEN)

\* the component of the Jones vector along the axis at angle phi
Projection(jv, phi) == cAdd(cMulScalar(jv.ex, Cos(phi)), cMulScalar(jv.ey, Sin(phi)))

\* the Jones vector is of unit magnitude and has no component across the
\* axis at angle phi
JonesAlong(jv, phi) ==
    /\ cAbs(Projection(jv, phi + 90 * DEG)) <= 10
    /\ Abs(getIntensity(jv) - ONE) <= 20

\* the children of the branch that has hit a polarizing beam splitter that
\* go on in the direction of the branch, and those that leave it in the
\* specular direction
Transmitted(kids) == SelectSeq(kids, LAMBDA k : k.dir = tr.currentDir)

Reflected(kids) ==
    SelectSeq(kids, LAMBDA k :
        /\ k.dir # tr.currentDir
        /\ Abs(k.dir.x - Reflect(tr.currentDir, tr.closestHit.normal).x) <= 2
        /\ Abs(k.dir.y - Reflect(tr.currentDir, tr.closestHit.normal).y) <= 2)

\* C23: a polarizing beam splitter hit by a branch of intensity I adds I to
\* the power reported for it, ends the branch, and spawns a transmitted child
\* (the projection of the polarization on the axis, direction unchanged) and
\* a reflected child (the projection on the perpendicular axis, specular
\* direction), each only if its intensity is above MIN_INTENSITY; the two
\* projected intensities sum to I; with the axis 0 horizontally polarized
\* light is fully transmitted and vertically polarized light fully reflected.
C23_PBS ==
    AtHit("pbs") =>
        LET I == tr.pending.intensity
            id == tr.closestHit.component.id
            phi == ParamOr(tr.closestHit.component, "pbsAxis", 0)
            pol == tr.pending.polarization
            slack == 2 + I \div 500
            transInt == MulDiv(I, Square(cAbs(Projection(pol, phi))), ONE)
            reflInt == MulDiv(I, Square(cAbs(Projection(pol, phi + 90 * DEG))), ONE)
            kids == tr.nextRays
            T == Transmitted(kids)
            R == Reflected(kids)
        IN  /\ tr.hits = (Key(id, "") :> I)
            /\ Len(kids) = Len(T) + Len(R) /\ Len(T) <= 1 /\ Len(R) <= 1
            /\ Abs(transInt + reflInt - I) <= slack
            /\ transInt > MIN_INTENSITY + slack => Len(T) = 1
            /\ transInt <= MIN_INTENSITY - slack => Len(T) = 0
            /\ reflInt > MIN_INTENSITY + slack => Len(R) = 1
            /\ reflInt <= MIN_INTENSITY - slack => Len(R) = 0
            /\ \A i \in 1..Len(T) :
                  /\ T[i].intensity > MIN_INTENSITY
                  /\ Abs(T[i].intensity - transInt) <= slack
                  /\ JonesAlong(T[i].polarization, phi)
            /\ \A i \in 1..Len(R) :
                  /\ R[i].intensity > MIN_INTENSITY
                  /\ Abs(R[i].intensity - reflInt) <= slack
                  /\ JonesAlong(R[i].polarization, phi + 90 * DEG)
            /\ (phi = 0 /\ I > 2 * MIN_INTENSITY /\ JonesAlong(pol, 0)) =>
                  Len(T) = 1 /\ Len(R) = 0 /\ Abs(T[1].intensity - I) <= slack
            /\ (phi = 0 /\ I > 2 * MIN_INTENSITY /\ JonesAlong(pol, 90 * DEG)) =>
                  Len(R) = 1 /\ Len(T) = 0 /\ Abs(R[1].intensity - I) <= slack

\* a polarizing beam splitter of axis 45 degrees, hit by a branch of
\* intensity 1 polarized at 45 degrees, has reported the power 1 and
\* spawned one child, reflected, of intensity 1
C23_Witness ==
    /\ AtHit("pbs")
    /\ ParamOr(tr.closestHit.component, "pbsAxis", 0) = 45 * DEG
    /\ JonesAlong(tr.pending.polarization, 45 * DEG)
    /\ tr.pending.intensity = PW
    /\ tr.hits = (Key(tr.closestHit.component.id, "") :> PW)
    /\ Len(tr.nextRays) = 1
    /\ Len(Reflected(tr.nextRays)) = 1
    /\ Abs(tr.nextRays[1].intensity - PW) <= PW \div 500

\* a step of tracePolyline whose closest hit is a lens surface
LensStep ==
    /\ pc = "trace" /\ tr.running /\ loopLimit > 0
    /\ loopLimit' # loopLimit
    /\ tr'.closestHit.type = "lens"

\* in a lens step: the ray meets the surface from the inside (it is exiting)
Exiting == dot(tr.currentDir, tr'.closestHit.normal, ONE) >= 0

\* in a lens step: the ray is turned back to the side of the surface it came
\* from, which is total internal reflection
TurnedBack ==
    dot(tr.currentDir, tr'.closestHit.normal, ONE)
        * dot(tr'.currentDir, tr'.closestHit.normal, ONE) < 0

\* in a lens step: the Gaussian parameters of the branch as propagated to the
\* hit point
Propagated ==
    propagateGaussian(tr.currentGaussian, mag(sub(tr'.closestHit.point, tr.currentOrigin)))

\* in a lens step: the thin-lens transform of the lens has been applied
Transformed ==
    LET lens == tr'.closestHit.component
        f0 == ParamOrTruthy(lens, "focalLength", 100 * LEN)
        f == IF IsConcave(StringOr(lens, "lensShape", "convex")) THEN -f0 ELSE f0
    IN  /\ tr'.currentGaussian = lensTransformGaussian(Propagated, f)
        /\ tr'.currentGaussian # Propagated

\* C24: the thin-lens transform of the Gaussian beam is applied once per
\* passage of a branch through a lens, at the step where the ray leaves the
\* glass into air: not at the entering surface, and not at a step that ends
\* in total internal reflection, where the ray stays in the glass.
C24_TransformAtExit ==
    [][LensStep =>
          IF Exiting /\ ~TurnedBack
          THEN Transformed /\ tr'.currentRefractiveIndex = REFRACTIVE_INDEX_AIR
          ELSE tr'.currentGaussian = Propagated]_vars

\* the branch has met the second surface of a concave lens beyond the
\* critical angle: it is turned back and stays in the glass, and its waist
\* is no longer the one recorded for the segment that led to the surface
C24_Witness ==
    /\ pc = "trace" /\ tr.running
    /\ tr.closestHit.type = "lens"
    /\ Len(tr.path) = 3
    /\ tr.currentRefractiveIndex = REFRACTIVE_INDEX_GLASS
    /\ dot(tr.currentDir, tr.closestHit.normal, ONE) < 0
    /\ dot(sub(tr.path[3], tr.path[2]), tr.closestHit.normal, ONE) > 0
    /\ tr.currentGaussian.w0 # tr.gaussianList[Len(tr.gaussianList)].w0

\* the Jones vector behind a retarder of fast axis phi and retardance gamma
\* (degrees times DEG): the vector in the frame of the axis, its component
\* across the axis delayed by gamma, back in the frame of the table
Retarded(jv, phi, gamma) ==
    LET inFrame == Jones(Projection(jv, phi), Projection(jv, phi + 90 * DEG))
        delayed == Jones(inFrame.ex, cMul(inFrame.ey, cExp(-gamma)))
    IN  Jones(cAdd(cMulScalar(delayed.ex, Cos(phi)), cMulScalar(delayed.ey, -Sin(phi))),
              cAdd(cMulScalar(delayed.ex, Sin(phi)), cMulScalar(delayed.ey, Cos(phi))))

\* two Jones vectors describe the same polarization state: their Stokes
\* components agree within the resolution of the amplitudes (a common phase
\* factor is no difference)
JonesNear(j1, j2) ==
    LET a == getStokes(normalizeJones(j1))
        b == getStokes(normalizeJones(j2))
    IN  /\ Abs(a.s1 - b.s1) <= 50
        /\ Abs(a.s2 - b.s2) <= 50
        /\ Abs(a.s3 - b.s3) <= 50

\* the branch has hit a half-wave or a quarter-wave plate
AtWaveplate == AtHit("hwp") \/ AtHit("qwp")

\* the fast axis and the retardance of the plate that was hit
PlateAxis ==
    ParamOr(tr.closestHit.component, "fastAxis",
            IF tr.closestHit.type = "hwp" THEN 0 ELSE 45 * DEG)

PlateRetardance == IF tr.closestHit.type = "hwp" THEN 180 * DEG ELSE 90 * DEG

\* C25: a half-wave or quarter-wave plate is lossless: a branch of intensity
\* I that hits one ends there, and exactly one child is spawned, in the
\* unchanged direction, with intensity I and the polarization retarded by pi
\* (half-wave) or pi / 2 (quarter-wave) about the configured fast axis.
C25_WaveplateLossless ==
    AtWaveplate =>
        LET I == tr.pending.intensity
            kids == tr.nextRays
        IN  /\ Len(kids) = 1
            /\ tr.hits = << >>
            /\ tr.path[Len(tr.path)] = tr.closestHit.point
            /\ kids[1].dir = tr.currentDir
            /\ Abs(kids[1].intensity - I) <= 2 + I \div 1000
            /\ JonesNear(kids[1].polarization,
                         Retarded(tr.pending.polarization, PlateAxis, PlateRetardance))

\* a half-wave plate of fast axis 22.5 degrees hit by a horizontally
\* polarized branch of intensity 1 has spawned one child of intensity 1 in
\* the same direction, polarized along -45 degrees
C25_Witness ==
    /\ AtHit("hwp")
    /\ PlateAxis = 225
    /\ JonesAlong(tr.pending.polarization, 0)
    /\ tr.pending.intensity = PW
    /\ Len(tr.nextRays) = 1
    /\ tr.nextRays[1].dir = tr.currentDir
    /\ Abs(tr.nextRays[1].intensity - PW) <= PW \div 1000
    /\ JonesAlong(tr.nextRays[1].polarization, -45 * DEG)

\* the transmission, reflectivity and efficiency of every element of the
\* scene lie in their documented range [0, 1]
ParametersInRange ==
    \A k \in 1..Len(components) :
        /\ ParamOr(components[k], "transmission", 0) \in 0..ONE
        /\ ParamOr(components[k], "reflectivity", 0) \in 0..ONE
        /\ ParamOr(components[k], "efficiency", 0) \in 0..ONE

\* C26: with all element parameters in [0, 1], every child ray's intensity is
\* at most its parent's intensity, and the intensity of a branch never
\* increases along its own path, so intensity is non-increasing along every
\* lineage from a seed ray to any descendant.
C26_IntensityNonIncreasing ==
    /\ [](pc = "trace" /\ ParametersInRange =>
            /\ tr.currentIntensity <= tr.pending.intensity
            /\ \A i \in 1..Len(tr.nextRays) :
                   tr.nextRays[i].intensity <= tr.pending.intensity)
    /\ [][pc = "trace" /\ pc' = "trace" /\ tr'.pending = tr.pending /\ ParametersInRange =>
            tr'.currentIntensity <= tr.currentIntensity]_vars

\* the rounding of an intensity that is recomputed from a Jones vector
Rounding(I) == 2 + I \div 1000

\* the element that was hit recomputes the intensity from the Jones vector
\* (lines 885-1011); the others multiply it by a parameter
Recomputes(type) == type \in {"hwp", "qwp", "polarizer", "pbs"}

\* C26 (amended): with all element parameters in [0, 1], every child's
\* intensity is at most its parent's and the intensity of a branch never
\* increases along its path, except that behind a wave plate, polarizer or
\* polarizing beam splitter, where the intensity is the parent's times the
\* squared magnitude of a transformed unit Jones vector, it may exceed the
\* parent's by the rounding of that product.
C26_NonIncreasingUpToRounding ==
    /\ [](pc = "trace" /\ ParametersInRange =>
            LET I == tr.pending.intensity
                slack == IF ~tr.running /\ Recomputes(tr.closestHit.type)
                         THEN Rounding(I) ELSE 0
            IN  /\ tr.currentIntensity <= I + slack
                /\ \A i \in 1..Len(tr.nextRays) : tr.nextRays[i].intensity <= I + slack)
    /\ [][pc = "trace" /\ pc' = "trace" /\ tr'.pending = tr.pending /\ ParametersInRange =>
            tr'.currentIntensity <= tr.currentIntensity
                + (IF Recomputes(tr'.closestHit.type) THEN Rounding(tr.currentIntensity) ELSE 0)]_vars

\* a branch of intensity 0.0669 has hit the half-wave plate and its one
\* child carries more than that, by less than the rounding
C26_Witness ==
    /\ AtHit("hwp")
    /\ ParametersInRange
    /\ Len(tr.nextRays) = 1
    /\ tr.pending.intensity = 6690000
    /\ tr.nextRays[1].intensity > tr.pending.intensity
    /\ tr.nextRays[1].intensity <= tr.pending.intensity + Rounding(tr.pending.intensity)

\* the squared magnitude of the component of the Jones vector j2 along the
\* unit Jones vector j1, |<j1, j2>|^2
Overlap(j1, j2) ==
    LET inner == cAdd(cMul(Cx(j1.ex.re, -j1.ex.im), j2.ex),
                      cMul(Cx(j1.ey.re, -j1.ey.im), j2.ey))
    IN  Square(cAbs(inner))

\* the Jones vector has unit magnitude, within the resolution of the amplitudes
UnitJones(jv) == Abs(getIntensity(jv) - ONE) <= 10

\* the branch has hit an element that acts on the polarization
AtPolarizationElement == AtWaveplate \/ AtHit("polarizer") \/ AtHit("pbs")

EscapeStep ==
    /\ SearchStep
    /\ ~NonFinite(tr.currentOrigin) /\ ~NonFinite(tr.currentDir)
    /\ \A k \in 1..Len(components) :
           OwnHit(components[k], tr.currentOrigin, tr.currentDir).type = "none"

\* C28: when no element is hit in a step the branch escapes: one final point
\* at distance MAX_RAY_LENGTH (2000) from the current origin along the current
\* direction is appended to the path, and the branch ends with no child rays
\* and no accumulated power.
C28_Escape ==
    [][EscapeStep =>
          LET last == tr'.path[Len(tr'.path)]
              away == sub(last, tr.currentOrigin)
          IN  /\ ~tr'.running
              /\ Len(tr'.path) = Len(tr.path) + 1
              /\ SubSeq(tr'.path, 1, Len(tr.path)) = tr.path
              /\ Abs(mag(away) - 2000 * LEN) <= 2 * LEN
              /\ Abs(Cross(away, tr.currentDir)) <= 2 * LEN
              /\ dot(away, tr.currentDir, ONE) > 0
              /\ tr'.currentDir = tr.currentDir
              /\ tr'.nextRays = << >>
              /\ tr'.hits = << >>]_vars

\* a branch that a mirror turned upwards at (200, 0) has met nothing more
\* and ended at (200, 2000), with no child and no power
C28_Witness ==
    /\ pc = "trace" /\ ~tr.running
    /\ tr.closestHit.type = "none"
    /\ Len(tr.path) = 3
    /\ Abs(tr.path[2].x - 200 * LEN) <= LEN /\ Abs(tr.path[2].y) <= LEN
    /\ Abs(tr.path[3].x - 200 * LEN) <= LEN
    /\ Abs(tr.path[3].y - 2000 * LEN) <= LEN
    /\ tr.nextRays = << >>
    /\ tr.hits = << >>

\* C29: for every polarization detector the derived keys '<id>_pol' and
\* '<id>_ellipticity' are in the returned hits exactly when the detector's
\* accumulated power is greater than 0, and then the orientation lies in
\* [0, 180) degrees and the ellipticity in [-45, 45] degrees.
C29_DerivedKeys ==
    pc = "returned" =>
        \A j \in 1..Len(components) :
            components[j].type = "poldetector" =>
                LET id == components[j].id
                    power == Get(result.hits, Key(id, ""))
                IN  /\ Key(id, "_pol") \in DOMAIN result.hits <=> power > 0
                    /\ Key(id, "_ellipticity") \in DOMAIN result.hits <=> power > 0
                    /\ power > 0 =>
                          /\ result.hits[Key(id, "_pol")] >= 0
                          /\ result.hits[Key(id, "_pol")] < 180 * DEG
                          /\ result.hits[Key(id, "_ellipticity")] >= -(45 * DEG)
                          /\ result.hits[Key(id, "_ellipticity")] <= 45 * DEG

\* a detector that accumulated power reports an orientation in the upper half
\* of the range, where the half angle of atan2 is negative
C29_Witness ==
    /\ pc = "returned"
    /\ \E j \in 1..Len(components) :
          /\ components[j].type = "poldetector"
          /\ Get(result.hits, Key(components[j].id, "")) > 0
          /\ Key(components[j].id, "_pol") \in DOMAIN result.hits
          /\ result.hits[Key(components[j].id, "_pol")] > 90 * DEG
          /\ Key(components[j].id, "_ellipticity") \in DOMAIN result.hits

\* the power the traced ray coupled into the fiber: its intensity times the
\* coupling efficiency when its last segment ends on the front face within
\* the core at an incidence angle of at most the acceptance half-angle, else 0
CoupledFrom(ray, fiber) ==
    IF Len(ray.path) < 2 THEN 0
    ELSE
    LET last == ray.path[Len(ray.path)]
        D == normalize(sub(last, ray.path[Len(ray.path) - 1]))
        N == Vec(Cos(fiber.rotation + 180 * DEG), Sin(fiber.rotation + 180 * DEG))
        faceCenter == add(fiber.position, mul(N, 16 * LEN, ONE))
        coreRadius == ParamOr(fiber, "coreSize", 12 * LEN) \div 2
        A == ParamOr(fiber, "acceptanceAngle", 15 * DEG)
        sigma == DivScale(A, 2355, 1000)
        cosTheta == -dot(D, N, ONE)
        theta == AcosDeg(Max2(-ONE, Min2(ONE, cosTheta)))
    IN  IF /\ ~NonFinite(last) /\ ~NonFinite(D)
           /\ Abs(dot(sub(last, faceCenter), N, ONE)) <= 2
           /\ mag(sub(last, faceCenter)) <= coreRadius
           /\ cosTheta > 0 /\ theta <= A
        THEN MulDiv(ray.intensity, Exp(-DivScale(theta * theta, 2 * sigma * sigma, ONE)), ONE)
        ELSE 0

\* the traced rays, by their place in the order of tracing, that coupled more
\* than MIN_INTENSITY into the fiber
Coupling(rays, fiber) ==
    { i \in 1..Len(rays) : CoupledFrom(rays[i], fiber) > MIN_INTENSITY }

\* the greatest member of a non-empty set of numbers
Latest(S) == CHOOSE i \in S : \A j \in S : j <= i

\* C30: the color reported for a fiber coupler is the color of the last
\* branch, in the order branches are traced, that coupled more than
\* MIN_INTENSITY of power into it; a branch that couples at or below that
\* amount, or is blocked, never sets or changes the fiber's color.
C30_FiberColor ==
    /\ pc = "returned" =>
          /\ \A j \in 1..Len(components) :
                components[j].type = "fiber" =>
                    LET S == Coupling(result.rays, components[j])
                        id == components[j].id
                    IN  IF S = {} THEN id \notin DOMAIN result.hitColors
                        ELSE /\ id \in DOMAIN result.hitColors
                             /\ result.hitColors[id] = result.rays[Latest(S)].color
          /\ DOMAIN result.hitColors \subseteq
                { components[j].id : j \in { k \in 1..Len(components) :
                                                components[k].type = "fiber" } }
    /\ pc = "trace" =>
          \A id \in DOMAIN tr.hitColors :
              /\ AtHit("fiber")
              /\ id = tr.closestHit.component.id
              /\ Get(tr.hits, Key(id, "")) > MIN_INTENSITY
              /\ tr.hitColors[id] = tr.pending.color

\* a red branch and then a green branch each coupled more than MIN_INTENSITY
\* into the fiber, and the fiber is reported green
C30_Witness ==
    /\ pc = "returned"
    /\ Len(components) = 3
    /\ components[2].type = "fiber"
    /\ Coupling(result.rays, components[2]) = {1, 2}
    /\ result.rays[1].color = "#ff0000"
    /\ result.rays[2].color = "#00ff00"
    /\ result.hitColors = [k \in {"fib1"} |-> "#00ff00"]

\* calculateRays has seeded the queue and traced nothing yet
Seeded == pc = "loop" /\ finalRays = << >>

\* the scene has one laser, of simple profile, at a finite position
OneSimpleLaser ==
    /\ Len(Lasers(components)) = 1
    /\ ParamOr(Lasers(components)[1], "profile", "simple") # "gaussian"
    /\ ~NonFinite(Lasers(components)[1].position)

\* the seeds of the one laser are, in this order, the core ray of intensity
\* P (1 - g) at the laser's position if that is above the floor, and the two
\* side rays of intensity P g / 2, 2.5 to either side of the position across
\* the direction, if that is above the floor
SeedsAsDescribed ==
    LET laser == Lasers(components)[1]
        P == ParamOr(laser, "brightness", PW)
        g == ParamOr(laser, "glow", (4 * ONE) \div 10)
        core == MulDiv(P, ONE - g, ONE)
        side == MulDiv(P, g, ONE) \div 2
        c == IF core > MIN_INTENSITY THEN 1 ELSE 0
    IN  /\ Len(queue) = c + (IF side > MIN_INTENSITY THEN 2 ELSE 0)
        /\ \A i \in 1..Len(queue) : queue[i].bounces = 0 /\ Abs(mag(queue[i].dir) - ONE) <= 2
        /\ c = 1 => /\ queue[1].origin = laser.position
                    /\ Abs(queue[1].intensity - core) <= 1
        /\ side > MIN_INTENSITY =>
              LET up == sub(queue[c + 1].origin, laser.position)
                  down == sub(queue[c + 2].origin, laser.position)
              IN  /\ Abs(queue[c + 1].intensity - side) <= 1
                  /\ Abs(queue[c + 2].intensity - side) <= 1
                  /\ Abs(mag(up) - (25 * LEN) \div 10) <= 2
                  /\ Abs(dot(up, queue[c + 1].dir, ONE)) <= 2
                  /\ Cross(queue[c + 1].dir, up) > 0
                  /\ down = Vec(-up.x, -up.y)

Consume(st, i) ==
    IF i > Len(st.all) THEN st
    ELSE Let(RunTrace(TraceEntry(st.all[i]), MAX_BOUNCES, components), LAMBDA t :
             [all |-> st.all \o SelectSeq(t.nextRays, Admitted),
              hits |-> AccumulateHits(st.hits, t.hits),
              colors |-> AggregateColors(st.colors, t.hitColors)])

RECURSIVE ConsumeFrom(_, _, _)
\* the pending rays lo..hi consumed in their order, each once
ConsumeFrom(st, lo, hi) ==
    IF lo > hi THEN st
    ELSE IF lo = hi THEN Consume(st, lo)
    ELSE CHOOSE done \in {ConsumeFrom(half, (lo + hi) \div 2 + 1, hi) :
                              half \in {ConsumeFrom(st, lo, (lo + hi) \div 2)}} : TRUE

\* every pending ray of the call in the order of its enqueueing, the seeds
\* first, when the first n of them have been consumed, with the hits and
\* colors of those n
ConsumedFirst(n) ==
    ConsumeFrom([all |-> SeedQueue(Lasers(components), 1), hits |-> << >>, colors |-> << >>],
                1, n)

\* C32: every pending ray is consumed at most once: the traced rays are, in
\* order, the records of the pending rays dequeued so far, one each, with
\* the pending ray's origin as start and first path point and its initial
\* intensity; the queue holds exactly the pending rays not yet dequeued; and
\* the hits and colors are those of the rays traced, so that pending rays
\* still queued when the cap stops the loop add no traced ray, hit or color.
C32_ConsumedOnce ==
    pc \in {"loop", "trace", "post", "returned"} =>
        Let(ConsumedFirst(Len(finalRays)), LAMBDA st :
            LET n == Len(finalRays)
                head == IF pc = "trace" THEN 1 ELSE 0
            IN  /\ Len(st.all) >= n + head
                /\ \A i \in 1..n :
                      /\ finalRays[i].start = st.all[i].origin
                      /\ finalRays[i].path[1] = st.all[i].origin
                      /\ finalRays[i].intensity = st.all[i].intensity
                /\ pc = "trace" => tr.pending = st.all[n + 1]
                /\ queue = SubSeq(st.all, n + head + 1, Len(st.all))
                /\ totalHitColors = st.colors
                /\ totalHits = IF pc = "returned" THEN PostProcess(st.hits, components, 1)
                               ELSE st.hits
                /\ pc = "returned" => result.rays = finalRays /\ result.hits = totalHits)

\* the cap has stopped the loop with pending rays still queued: the call has
\* returned MAX_TOTAL_RAYS traced rays, the last starting where its path
\* starts, and the queued rays are those that were enqueued after the first
\* MAX_TOTAL_RAYS
C32_Witness ==
    /\ pc = "returned"
    /\ Len(finalRays) = MAX_TOTAL_RAYS
    /\ Len(queue) > 0
    /\ finalRays[MAX_TOTAL_RAYS].start = finalRays[MAX_TOTAL_RAYS].path[1]
    /\ finalRays[MAX_TOTAL_RAYS].start # finalRays[1].start
    /\ result.hits = << >>

RECURSIVE PowerAccumulated(_, _, _)
\* the sum of the power accumulated by the detectors, polarization detectors
\* and fiber couplers from the i-th component on
PowerAccumulated(hits, comps, i) ==
    IF i > Len(comps) THEN 0
    ELSE (IF comps[i].type \in {"detector", "poldetector", "fiber"}
          THEN Get(hits, Key(comps[i].id, "")) ELSE 0)
         + PowerAccumulated(hits, comps, i + 1)

RECURSIVE PowerEmitted(_, _)
\* the sum of the total power of the lasers from the i-th component on
PowerEmitted(comps, i) ==
    IF i > Len(comps) THEN 0
    ELSE (IF comps[i].type = "laser" THEN ParamOr(comps[i], "brightness", PW) ELSE 0)
         + PowerEmitted(comps, i + 1)

\* a call is under way or has returned
InCall == pc \in {"loop", "trace", "post", "returned"}

OnTable(comp) ==
    /\ comp.position.x \notin {NaN, Infinity, -Infinity}
    /\ comp.position.y \notin {NaN, Infinity, -Infinity}

\* the color of the seeds a laser emits
SeedColor(laser) == StringOr(laser, "color", "#ff0000")

\* C34: the work queue is first in, first out, so the traced rays are in
\* the order of their enqueueing and by non-decreasing generation: the seed
\* rays, in laser order and each laser's core ray first, precede every child;
\* every ray of generation g is traced before any ray of generation g + 1;
\* and when the global cap truncates the result the rays left in the queue
\* are of the deepest generations.
C34_BreadthFirst ==
    /\ InCall =>
          Let(ConsumedFirst(Len(finalRays)), LAMBDA st :
              LET n == Len(finalRays)
                  seeds == SeedQueue(Lasers(components), 1)
              IN  /\ Len(st.all) >= n
                  /\ \A i \in 1..n :
                        /\ finalRays[i].start = st.all[i].origin
                        /\ finalRays[i].direction = st.all[i].dir
                        /\ finalRays[i].intensity = st.all[i].intensity
                  /\ \A i \in 1..Len(st.all) :
                        /\ i <= Len(seeds) <=> st.all[i].bounces = 0
                        /\ i > 1 => st.all[i - 1].bounces <= st.all[i].bounces
                  /\ \A i \in 1..Len(queue) :
                        /\ queue[i].bounces < MAX_BOUNCES
                        /\ n > 0 => st.all[n].bounces <= queue[i].bounces)
    /\ Seeded =>
          LET lasers == Lasers(components)
          IN  /\ \A i \in 1..Len(queue) : \E k \in 1..Len(lasers) :
                     /\ queue[i].color = SeedColor(lasers[k])
                     /\ i = 1 \/ \E j \in 1..k : queue[i - 1].color = SeedColor(lasers[j])
              /\ (Len(lasers) = 1 /\ Len(queue) = 3 /\ OnTable(lasers[1])) =>
                     /\ queue[1].origin = lasers[1].position
                     /\ queue[2].origin # lasers[1].position

\* the cap has truncated the result: the first traced ray is a seed, the
\* last is of a later generation, and every ray left in the queue is of that
\* generation or a deeper one
C34_Witness ==
    /\ pc = "returned"
    /\ Len(finalRays) = MAX_TOTAL_RAYS
    /\ queue # << >>
    /\ LET last == ConsumedFirst(MAX_TOTAL_RAYS).all[MAX_TOTAL_RAYS]
       IN  /\ last.bounces > 0
           /\ \A i \in 1..Len(queue) : queue[i].bounces >= last.bounces
           /\ \E i \in 1..Len(queue) : queue[i].bounces > last.bounces

\* the rays of a sequence whose counter is below MAX_BOUNCES, in order
BelowBound(rays) ==
    SelectSeq(rays, LAMBDA child : child.bounces \in 0..(MAX_BOUNCES - 1))

\* C35: a child carries its parent's counter plus one and seeds carry 0; a
\* child is enqueued only if its counter is below MAX_BOUNCES, so no pending
\* or traced ray is of a generation beyond MAX_BOUNCES - 1 and the children
\* of a ray of generation MAX_BOUNCES - 1 are discarded whatever their
\* intensity; and every ray taken from the queue starts its trace with a
\* budget of MAX_BOUNCES steps, whatever budget the trace before it left.
C35_GenerationBound ==
    /\ [](/\ \A i \in 1..Len(queue) : queue[i].bounces \in 0..(MAX_BOUNCES - 1)
          /\ Seeded => \A i \in 1..Len(queue) : queue[i].bounces = 0
          /\ pc = "trace" =>
                /\ tr.pending.bounces \in 0..(MAX_BOUNCES - 1)
                /\ \A i \in 1..Len(tr.nextRays) :
                      tr.nextRays[i].bounces = tr.pending.bounces + 1)
    /\ [][/\ (pc = "trace" /\ pc' = "loop") =>
               /\ queue' = queue \o BelowBound(tr.nextRays)
               /\ (tr.pending.bounces = MAX_BOUNCES - 1 => queue' = queue)
          /\ (pc = "loop" /\ pc' = "trace") =>
               /\ tr'.pending = Head(queue)
               /\ loopLimit' = MAX_BOUNCES]_vars

\* the trace of a ray of generation MAX_BOUNCES - 1 has ended after using
\* part of its budget, and has spawned a child well above the intensity floor
C35_Witness ==
    /\ pc = "trace"
    /\ ~LoopContinues(tr, loopLimit)
    /\ loopLimit < MAX_BOUNCES
    /\ tr.pending.bounces = MAX_BOUNCES - 1
    /\ \E i \in 1..Len(tr.nextRays) : tr.nextRays[i].intensity > 100 * MIN_INTENSITY

\* C36: the lens-surface steps of a branch agree with the medium tracked for
\* it: a surface is met from the outside (entering, air to glass) only when
\* the branch is in air, and from the inside (exiting, glass to air) only
\* when it is in glass, so the first lens step of a branch is an entering
\* one; and a branch that meets something other than a lens surface, or
\* nothing, is in air.
C36_MediumConsistent ==
    [][/\ LensStep =>
            tr.currentRefractiveIndex =
                IF Exiting THEN REFRACTIVE_INDEX_GLASS ELSE REFRACTIVE_INDEX_AIR
       /\ (SearchStep /\ tr'.closestHit.type # "lens") =>
            tr.currentRefractiveIndex = REFRACTIVE_INDEX_AIR]_vars

\* a seed ray that started in air has met, as its first surface, a face of a
\* convex lens from the inside: it was refracted as from glass to air, then
\* met the other face from the outside, and has escaped with glass as its
\* medium
C36_Witness ==
    /\ pc = "trace" /\ ~tr.running
    /\ tr.pending.bounces = 0
    /\ tr.closestHit.type = "none"
    /\ Len(tr.path) = 4
    /\ \E k \in 1..Len(components) :
          /\ components[k].type = "lens"
          /\ StringOr(components[k], "lensShape", "convex") = "convex"
          /\ LET far == getLensBoundaries(components[k])[2].center
                 near == getLensBoundaries(components[k])[1].center
             IN  /\ dot(sub(tr.path[2], tr.path[1]), sub(tr.path[2], far), ONE) > 0
                 /\ dot(sub(tr.path[3], tr.path[2]), sub(tr.path[3], near), ONE) < 0
    /\ tr.currentRefractiveIndex = REFRACTIVE_INDEX_GLASS

\* the operation just done
LastEdit == edits'[Len(edits')]

\* C37: the undo history is bounded: after any sequence of committed and
\* transient updates, checkpoints, undos and redos the past holds at most
\* HistoryLimit snapshots and past and future together hold at most
\* HistoryLimit; a snapshot pushed onto a full past drops the oldest one.
C37_HistoryBounded ==
    /\ [](/\ Len(history.past) <= HistoryLimit
          /\ Len(history.past) + Len(history.future) <= HistoryLimit)
    /\ [][(/\ edits' # edits
           /\ LastEdit \in {"update", "checkpoint"}
           /\ Len(history.past) = HistoryLimit) =>
              history'.past = Tail(history.past) \o <<history.present>>]_vars

\* a checkpoint on a full past has dropped the oldest snapshot, the table
\* after the first edit, and pushed the present
C37_Witness ==
    /\ edits # << >>
    /\ edits[Len(edits)] = "checkpoint"
    /\ Len(history.past) = HistoryLimit
    /\ history.past[1] = Snapshot(2)
    /\ history.past[HistoryLimit] = history.present
    /\ history.present = Snapshot(HistoryLimit + 1)

\* C38: undo and redo are inverse: with a non-empty past, undo followed by
\* redo restores past, present and future; with a non-empty future, redo
\* followed by undo does; undo with an empty past and redo with an empty
\* future leave the history as it is.
C38_UndoRedoInverse ==
    /\ Len(history.past) > 0 => redo(undo(history)) = history
    /\ Len(history.future) > 0 => undo(redo(history)) = history
    /\ Len(history.past) = 0 => undo(history) = history
    /\ Len(history.future) = 0 => redo(history) = history

\* an undo has just been done on a history with several snapshots: past and
\* future are not empty and the snapshots next to the present differ from it
C38_Witness ==
    /\ edits # << >>
    /\ edits[Len(edits)] = "undo"
    /\ Len(history.past) > 1
    /\ Len(history.future) > 0
    /\ history.past[Len(history.past)] # history.present
    /\ history.future[1] # history.present
    /\ undo(history) # history
    /\ redo(history) # history

\* the past with one snapshot pushed: the snapshot on top of the snapshots of
\* the past, without the oldest when the past was full
Pushed(past, snapshot) ==
    (IF Len(past) < HistoryLimit THEN past ELSE Tail(past)) \o <<snapshot>>

\* C39: a committed update pushes the previous present onto the past, makes
\* the new list the present and empties the future, so that a redo right
\* after it does nothing; a checkpoint does the same and leaves the present
\* as it is; a transient update replaces the present only.
C39_UpdateFrames ==
    [][edits' # edits =>
          /\ LastEdit = "update" =>
                /\ history'.past = Pushed(history.past, history.present)
                /\ history'.present \in NewComponents(history.present)
                /\ history'.future = << >>
                /\ redo(history') = history'
          /\ LastEdit = "checkpoint" =>
                /\ history'.past = Pushed(history.past, history.present)
                /\ history'.present = history.present
                /\ history'.future = << >>
                /\ redo(history') = history'
          /\ LastEdit = "transient" =>
                /\ history'.past = history.past
                /\ history'.present \in NewComponents(history.present)
                /\ history'.future = history.future]_vars

\* a full past was undone by one step and a committed update followed: the
\* past is full again, its top is the snapshot the undo restored, and the
\* future the undo had built is gone
C39_Witness ==
    /\ edits = <<"undo", "update">>
    /\ Len(history.past) = HistoryLimit
    /\ history.past[HistoryLimit] = Snapshot(HistoryLimit - 1)
    /\ history.present # Snapshot(HistoryLimit - 1)
    /\ history.future = << >>

=============================================================================
